---- MODULE Spec2Model ----
(***************************************************************************)
(* Pipeline orchestrator of the Etsy listing agent: the LangGraph workflow *)
(* of workflow.py (nodes of nodes.py, state of state.py), the stage        *)
(* transition function get_next_stage and the fan-in aggregator.           *)
(***************************************************************************)
EXTENDS Integers, Sequences, FiniteSets, TLC

\* ------------------------------------------------------------------ bounds
\* largest retry ceiling (max_retries) a run is started with
MaxRetriesBound == 2
\* largest number of prompt slots of a strategy (the fan-out width N)
MaxSlots == 2
\* execution counters saturate here (history only, never read by the code)
ExecCap == MaxRetriesBound + 2
\* largest retry counter handed to get_next_stage by a direct caller
MaxCount == MaxRetriesBound + 1

\* ------------------------------------------------------- program constants
\* Python None, of an optional record (a review slot, final_error, a result)
None == [none |-> TRUE]
\* Python None, of an optional string (ReviewResult.feedback)
NoText == "None"
\* state.py ReviewLevel
SCHEMA == 1
RULES == 2
SEMANTIC == 3
\* nodes.py MAX_PROMPT_RETRIES
MAX_PROMPT_RETRIES == 2

WorkStages == {"preprocessing", "strategy", "nanobanana", "listing"}
ReviewStages == {"preprocessing_review", "strategy_review", "nanobanana_review", "listing_review"}
TerminalStages == {"completed", "failed"}
\* state.py StageType
StageType == {"pending"} \cup WorkStages \cup ReviewStages \cup TerminalStages

\* state.py ReviewResult
ReviewResult(passed, level, errors, feedback) ==
  [passed |-> passed, level |-> level, errors |-> errors, feedback |-> feedback]

\* state.py create_initial_state
create_initial_state(max_retries, generate_images) ==
  [stage |-> "pending",
   preprocessing_review |-> None,
   strategy_review |-> None,
   nanobanana_review |-> None,
   listing_review |-> None,
   retry_counts |-> [s \in WorkStages |-> 0],
   max_retries |-> max_retries,
   success |-> FALSE,
   final_error |-> None,
   generate_images |-> generate_images,
   image_gen_result |-> None,
   prompt_results |-> <<>>,
   nanobanana_success |-> FALSE]

\* ----------------------------------------------- stage transition function
\* should_retry with the comparison off by one (<= for <)
should_retry_le(state, stage) == state.retry_counts[stage] <= state.max_retries

\* should_retry consulting a field besides retry_counts and max_retries
should_retry_hidden(state, stage) ==
  state.retry_counts[stage] < state.max_retries \/ state.generate_images

\* workflow.py should_retry
should_retry(state, stage) == state.retry_counts[stage] < state.max_retries

\* `review and review.passed` of workflow.py
ReviewPassed(review) == IF review = None THEN FALSE ELSE review.passed

\* get_next_stage whose terminal branch looks at the listing review again
get_next_stage_reopen(state) ==
  LET current == state.stage
      branch(review, stage, next) ==
        IF ReviewPassed(review) THEN next
        ELSE IF state.retry_counts[stage] < state.max_retries THEN stage ELSE "failed"
  IN CASE current = "pending" -> "preprocessing"
       [] current = "preprocessing" -> "preprocessing_review"
       [] current = "preprocessing_review" -> branch(state.preprocessing_review, "preprocessing", "strategy")
       [] current = "strategy" -> "strategy_review"
       [] current = "strategy_review" -> branch(state.strategy_review, "strategy", "nanobanana")
       [] current = "nanobanana" -> "nanobanana_review"
       [] current = "nanobanana_review" -> branch(state.nanobanana_review, "nanobanana", "listing")
       [] current = "listing" -> "listing_review"
       [] current \in {"listing_review", "completed"} -> branch(state.listing_review, "listing", "completed")
       [] OTHER -> "failed"

\* workflow.py get_next_stage
get_next_stage(state) ==
  LET current == state.stage IN
  CASE current = "pending" -> "preprocessing"
    [] current = "preprocessing" -> "preprocessing_review"
    [] current = "preprocessing_review" ->
         IF ReviewPassed(state.preprocessing_review) THEN "strategy"
         ELSE IF should_retry(state, "preprocessing") THEN "preprocessing" ELSE "failed"
    [] current = "strategy" -> "strategy_review"
    [] current = "strategy_review" ->
         IF ReviewPassed(state.strategy_review) THEN "nanobanana"
         ELSE IF should_retry(state, "strategy") THEN "strategy" ELSE "failed"
    [] current = "nanobanana" -> "nanobanana_review"
    [] current = "nanobanana_review" ->
         IF ReviewPassed(state.nanobanana_review) THEN "listing"
         ELSE IF should_retry(state, "nanobanana") THEN "nanobanana" ELSE "failed"
    [] current = "listing" -> "listing_review"
    [] current = "listing_review" ->
         IF ReviewPassed(state.listing_review) THEN "completed"
         ELSE IF should_retry(state, "listing") THEN "listing" ELSE "failed"
    [] current \in TerminalStages -> current
    [] OTHER -> "failed"

\* workflow.py _route_after_preprocess_review
_route_after_preprocess_review(state) ==
  LET next_stage == get_next_stage(state) IN
  IF next_stage = "strategy" THEN "strategy"
  ELSE IF next_stage = "preprocessing" THEN "preprocess"
  ELSE "failed"

\* _route_after_strategy_review that goes on with the fan-out once the
\* strategy stage has used up its retries
_route_after_strategy_review_goes_on(state) ==
  LET next_stage == get_next_stage(state) IN
  IF next_stage = "strategy" THEN "strategy" ELSE "nanobanana_fan_out"

\* workflow.py _route_after_strategy_review
_route_after_strategy_review(state) ==
  LET next_stage == get_next_stage(state) IN
  IF next_stage = "nanobanana" THEN "nanobanana_fan_out"
  ELSE IF next_stage = "strategy" THEN "strategy"
  ELSE "failed"

\* _route_after_aggregator that ignores the success flag
_route_after_aggregator_ignore(state) ==
  IF state.generate_images THEN "image_gen" ELSE "listing_review"

\* workflow.py _route_after_aggregator
_route_after_aggregator(state) ==
  IF ~state.nanobanana_success THEN "failed"
  ELSE IF state.generate_images THEN "image_gen"
  ELSE "listing_review"

\* _route_after_listing_review that sends a listing retry back through the
\* fan-out
_route_after_listing_review_fans_out(state) ==
  LET next_stage == get_next_stage(state) IN
  IF next_stage = "listing" THEN "nanobanana_fan_out"
  ELSE IF next_stage = "completed" THEN "completed"
  ELSE "failed"

\* workflow.py _route_after_listing_review
_route_after_listing_review(state) ==
  LET next_stage == get_next_stage(state) IN
  IF next_stage = "listing" THEN "listing"
  ELSE IF next_stage = "completed" THEN "completed"
  ELSE "failed"

\* ------------------------------------------------------------ review gate
\* classes of an artifact on disk, by the first validation layer it fails
ArtifactClasses == {"l1bad", "l2bad", "ok"}
\* what a generation call can leave behind: no parseable JSON, or an artifact
GenOutcomes == {"nojson"} \cup ArtifactClasses
\* a listing can also be valid but for a tag of more than 20 characters
ListingOutcomes == GenOutcomes \cup {"longtag"}
\* the generation call of a work node returns an output or raises (timeout,
\* provider error): call_claude, call_llm_with_fallback, call_minimax_agent
Raises == {"raise"}
\* outcomes of the Layer-3 judgment call of _run_semantic_review
L3Outcomes == {"noskill", "PASS", "FAIL", "unclear", "raise"}

\* _run_layered_review whose passing result carries the validators' warnings
_run_layered_review_warnings(data) ==
  IF data = "l1bad" THEN ReviewResult(FALSE, SCHEMA, <<"schema error">>, NoText)
  ELSE IF data \in {"l2bad", "longtag"} THEN ReviewResult(FALSE, RULES, <<"rule error">>, NoText)
  ELSE ReviewResult(TRUE, RULES, <<"warning">>, NoText)

\* _run_layered_review that lets a rule violation pass
_run_layered_review_lenient(data) ==
  IF data = "l1bad" THEN ReviewResult(FALSE, SCHEMA, <<"schema error">>, NoText)
  ELSE ReviewResult(TRUE, RULES, <<>>, NoText)

\* nodes.py _run_layered_review (validators.py validate_*_schema / validate_*_rules)
_run_layered_review(data) ==
  IF data = "l1bad" THEN ReviewResult(FALSE, SCHEMA, <<"schema error">>, NoText)
  ELSE IF data \in {"l2bad", "longtag"} THEN ReviewResult(FALSE, RULES, <<"rule error">>, NoText)
  ELSE ReviewResult(TRUE, RULES, <<>>, NoText)

\* nodes.py _run_semantic_review
_run_semantic_review(outcome) ==
  CASE outcome = "noskill" -> ReviewResult(TRUE, SEMANTIC, <<>>, NoText)
    [] outcome = "PASS" -> ReviewResult(TRUE, SEMANTIC, <<>>, NoText)
    [] outcome = "FAIL" -> ReviewResult(FALSE, SEMANTIC, <<"semantic issue">>, "response_text")
    [] outcome = "unclear" -> ReviewResult(TRUE, SEMANTIC, <<>>, "L3 review response unclear")
    [] OTHER -> ReviewResult(TRUE, SEMANTIC, <<>>, "L3 review skipped due to error")

\* the ReviewResult built when the artifact cannot be read
ReadFailure(what) == ReviewResult(FALSE, SCHEMA, <<what>>, NoText)

\* ------------------------------------------------------------- aggregator
\* nodes.py prompt_aggregator_node: the `failed` counter of the loop
RECURSIVE CountFailed(_)
CountFailed(prompt_results) ==
  IF prompt_results = <<>> THEN 0
  ELSE (IF Head(prompt_results).success THEN 0 ELSE 1) + CountFailed(Tail(prompt_results))

\* nodes.py prompt_aggregator_node: prompts_array, one prompt_obj per result
prompts_array(prompt_results) ==
  [i \in 1..Len(prompt_results) |->
     [index |-> i,
      type |-> prompt_results[i].direction,
      prompt |-> prompt_results[i].prompt]]

\* nodes.py prompt_aggregator_node: output_data, the merged artifact it saves
output_data(prompt_results) == [prompts |-> prompts_array(prompt_results)]

\* prompt_aggregator_node that reports success when any prompt succeeded
prompt_aggregator_node_any(state) ==
  [state EXCEPT !.nanobanana_success =
                   (CountFailed(state.prompt_results) < Len(state.prompt_results)),
                !.stage = "nanobanana_aggregated"]

\* nodes.py prompt_aggregator_node: the state update it returns
prompt_aggregator_node(state) ==
  [state EXCEPT !.nanobanana_success = (CountFailed(state.prompt_results) = 0),
                !.stage = "nanobanana_aggregated"]

\* ------------------------------------------------------------------ state
VARIABLES
  pc,          \* the graph node that runs next ("END" after a terminal node)
  state,       \* the ProductState of the job
  files,       \* the job's artifacts on disk
  pending,     \* fan-out tasks dispatched and not yet completed
  l3_enabled,  \* ENABLE_L3_REVIEW of the deployment
  numSlots,    \* number of slots of the strategy (fan-out width)
  execs,       \* history: executions of each work stage's node
  hist,        \* history: passed flag of each review of a stage, in order
  tasks,       \* history: runs and outcome of each prompt task
  fn,          \* direct calls of the pure functions (get_next_stage, aggregator)
  l3_call,     \* history: the Layer-3 review the node that ran last has made
  job          \* the backend's _jobs entry of the job

vars == <<pc, state, files, pending, l3_enabled, numSlots, execs, hist, tasks, fn,
          l3_call, job>>

Bump(n) == IF n < ExecCap THEN n + 1 ELSE n
Push(h, b) == IF Len(h) < ExecCap THEN Append(h, b) ELSE h

NoFn == [mode |-> "graph", calls |-> 0, result |-> None, prev |-> None]

\* no Layer-3 review was made; the Layer-3 review a gate made, with its outcome
NoL3Call == [gate |-> "none", called |-> FALSE, outcome |-> "none"]
L3Call(gate, called, l3) ==
  [gate |-> gate, called |-> called, outcome |-> IF called THEN l3 ELSE "none"]

\* the run has no _jobs entry (it was not started by the backend)
NoJob == [status |-> "none", results |-> None, error |-> None]

Init ==
  /\ pc = "preprocess"
  /\ \E m \in 0..MaxRetriesBound, g \in BOOLEAN : state = create_initial_state(m, g)
  /\ files = [product_data |-> "absent", strategy |-> "absent",
              listing |-> "absent", prompts |-> None]
  /\ pending = {}
  /\ l3_enabled \in BOOLEAN
  /\ numSlots \in 1..MaxSlots
  /\ execs = [s \in WorkStages |-> 0]
  /\ hist = [s \in WorkStages |-> <<>>]
  /\ tasks = [i \in 1..MaxSlots |-> [runs |-> 0, outcome |-> "none"]]
  /\ fn = NoFn
  /\ l3_call = NoL3Call
  /\ job = NoJob

\* what a generation call leaves on disk: the new artifact, or the old file
Written(old, out) == IF out = "nojson" THEN old ELSE out

\* nodes.py preprocess_node
preprocess_node ==
  /\ pc = "preprocess"
  /\ \E out \in GenOutcomes \cup Raises :
       IF out \in Raises
       THEN pc' = "crashed" /\ UNCHANGED <<state, files>>
       ELSE /\ files' = [files EXCEPT !.product_data = Written(@, out)]
            /\ state' = [state EXCEPT !.stage = "preprocessing"]
            /\ pc' = "preprocess_review"
  /\ execs' = [execs EXCEPT !["preprocessing"] = Bump(@)]
  /\ l3_call' = NoL3Call
  /\ UNCHANGED <<pending, l3_enabled, numSlots, hist, tasks, fn, job>>

\* preprocess_review_node that runs Layer 3 on every artifact it could read
preprocess_l3_called_always(data, l3_active) == data # "absent"

\* nodes.py preprocess_review_node: the condition of its Layer-3 review
preprocess_l3_called(data, l3_active) ==
  data # "absent" /\ _run_layered_review(data).passed /\ l3_active

\* nodes.py preprocess_review_node: the state it returns
preprocess_review_result(st, data, l3_active, l3) ==
  IF data = "absent"
  THEN [st EXCEPT !.preprocessing_review = ReadFailure("Failed to read product_data.json"),
                  !.stage = "preprocessing_review"]
  ELSE LET l12 == _run_layered_review(data)
           l3_result == _run_semantic_review(l3)
           review_result == IF preprocess_l3_called(data, l3_active) /\ ~l3_result.passed
                            THEN l3_result ELSE l12
       IN [st EXCEPT !.retry_counts["preprocessing"] =
                        IF review_result.passed THEN @ ELSE @ + 1,
                     !.preprocessing_review = review_result,
                     !.stage = "preprocessing_review"]

\* nodes.py preprocess_review_node, then the edge _route_after_preprocess_review
preprocess_review_node ==
  /\ pc = "preprocess_review"
  /\ \E l3 \in L3Outcomes :
       /\ state' = preprocess_review_result(state, files.product_data, l3_enabled, l3)
       /\ l3_call' = L3Call("preprocessing",
                            preprocess_l3_called(files.product_data, l3_enabled), l3)
  /\ hist' = [hist EXCEPT !["preprocessing"] = Push(@, state'.preprocessing_review.passed)]
  /\ pc' = _route_after_preprocess_review(state')
  /\ UNCHANGED <<files, pending, l3_enabled, numSlots, execs, tasks, fn, job>>

\* nodes.py strategy_node
strategy_node ==
  /\ pc = "strategy"
  /\ IF files.product_data = "absent"
     THEN /\ files' = files
          /\ state' = [state EXCEPT !.stage = "strategy"]
          /\ pc' = "strategy_review"
     ELSE \E out \in GenOutcomes \cup Raises :
            IF out \in Raises
            THEN pc' = "crashed" /\ UNCHANGED <<state, files>>
            ELSE /\ files' = [files EXCEPT !.strategy = Written(@, out)]
                 /\ state' = [state EXCEPT !.stage = "strategy"]
                 /\ pc' = "strategy_review"
  /\ execs' = [execs EXCEPT !["strategy"] = Bump(@)]
  /\ l3_call' = NoL3Call
  /\ UNCHANGED <<pending, l3_enabled, numSlots, hist, tasks, fn, job>>

\* nodes.py strategy_review_node: the condition of its Layer-3 review
strategy_l3_called(data, l3_active) ==
  data # "absent" /\ _run_layered_review(data).passed /\ l3_active

\* strategy_review_node that counts every review, passed ones included
strategy_review_result_counting(st, data, l3_active, l3) ==
  [st EXCEPT !.strategy_review = IF data = "absent"
                                 THEN ReadFailure("Failed to read image_strategy.json")
                                 ELSE _run_layered_review(data),
             !.stage = "strategy_review",
             !.retry_counts["strategy"] = @ + 1]

\* nodes.py strategy_review_node: the state it returns
strategy_review_result(st, data, l3_active, l3) ==
  LET failed(r) == [st EXCEPT !.strategy_review = r,
                              !.stage = "strategy_review",
                              !.retry_counts["strategy"] = @ + 1]
      l12 == _run_layered_review(data)
      l3_result == _run_semantic_review(l3)
  IN IF data = "absent" THEN failed(ReadFailure("Failed to read image_strategy.json"))
     ELSE IF ~l12.passed THEN failed(l12)
     ELSE IF strategy_l3_called(data, l3_active) /\ ~l3_result.passed THEN failed(l3_result)
     ELSE [st EXCEPT !.strategy_review =
                        ReviewResult(TRUE, IF l3_active THEN SEMANTIC ELSE RULES, <<>>, NoText),
                     !.stage = "strategy_review"]

\* nodes.py strategy_review_node, then the edge _route_after_strategy_review
strategy_review_node ==
  /\ pc = "strategy_review"
  /\ \E l3 \in L3Outcomes :
       /\ state' = strategy_review_result(state, files.strategy, l3_enabled, l3)
       /\ l3_call' = L3Call("strategy", strategy_l3_called(files.strategy, l3_enabled), l3)
  /\ hist' = [hist EXCEPT !["strategy"] = Push(@, state'.strategy_review.passed)]
  /\ pc' = _route_after_strategy_review(state')
  /\ UNCHANGED <<files, pending, l3_enabled, numSlots, execs, tasks, fn, job>>

\* the fan-out task that compiles the listing (the N prompt tasks are 1..N)
ListingTask == 0

\* workflow.py _nanobanana_pass_through, then the edge _fan_out_to_prompts
nanobanana_fan_out ==
  /\ pc = "nanobanana_fan_out"
  /\ state' = [state EXCEPT !.stage = "nanobanana"]
  /\ pending' = (1..numSlots) \cup {ListingTask}
  /\ pc' = "fan_out"
  /\ l3_call' = NoL3Call
  /\ UNCHANGED <<files, l3_enabled, numSlots, execs, hist, tasks, fn, job>>

\* outcomes of one agentic_loop call of prompt_node
AttemptOutcomes == {"ok", "empty", "error"}

\* nodes.py prompt_node: the retry loop over MAX_PROMPT_RETRIES attempts
prompt_node(direction, attempts) ==
  LET usable == \E k \in 1..MAX_PROMPT_RETRIES : attempts[k] = "ok"
  IN [direction |-> direction,
      prompt |-> IF usable THEN "prompt_text" ELSE "",
      success |-> usable,
      error |-> IF usable THEN NoText
                ELSE "Failed after {MAX_PROMPT_RETRIES} attempts (agent errors)"]

\* one prompt task of the fan-out: prompt_node, its result merged by the
\* operator.add reducer of state.py prompt_results
prompt_task(i) ==
  /\ pc = "fan_out"
  /\ i \in pending
  /\ i # ListingTask
  /\ \E attempts \in [1..MAX_PROMPT_RETRIES -> AttemptOutcomes] :
       LET result == prompt_node(i, attempts) IN
       /\ state' = [state EXCEPT !.prompt_results = Append(@, result)]
       /\ tasks' = [tasks EXCEPT ![i] = [runs |-> Bump(@.runs),
                                         outcome |-> IF result.success THEN "ok" ELSE "failed"]]
  /\ pending' = pending \ {i}
  /\ l3_call' = NoL3Call
  /\ UNCHANGED <<pc, files, l3_enabled, numSlots, execs, hist, fn, job>>

\* nodes.py listing_fan_out_node (listing_node on a copy of the state)
listing_fan_out_node ==
  /\ pc = "fan_out"
  /\ ListingTask \in pending
  /\ \E out \in ListingOutcomes \cup Raises :
       IF out \in Raises
       THEN pc' = "crashed" /\ UNCHANGED <<files, pending>>
       ELSE /\ files' = [files EXCEPT !.listing = Written(@, out)]
            /\ pending' = pending \ {ListingTask}
            /\ pc' = pc
  /\ execs' = [execs EXCEPT !["listing"] = Bump(@)]
  /\ l3_call' = NoL3Call
  /\ UNCHANGED <<state, l3_enabled, numSlots, hist, tasks, fn, job>>

\* prompt_aggregator that starts while fan-out tasks are still running
prompt_aggregator_early ==
  /\ pc = "fan_out"
  /\ state' = prompt_aggregator_node(state)
  /\ files' = [files EXCEPT !.prompts = output_data(state.prompt_results)]
  /\ pc' = _route_after_aggregator(state')
  /\ l3_call' = NoL3Call
  /\ UNCHANGED <<pending, l3_enabled, numSlots, execs, hist, tasks, fn, job>>

\* nodes.py prompt_aggregator_node as a graph node, then _route_after_aggregator
prompt_aggregator ==
  /\ pc = "fan_out"
  /\ pending = {}
  /\ state' = prompt_aggregator_node(state)
  /\ files' = [files EXCEPT !.prompts = output_data(state.prompt_results)]
  /\ pc' = _route_after_aggregator(state')
  /\ l3_call' = NoL3Call
  /\ UNCHANGED <<pending, l3_enabled, numSlots, execs, hist, tasks, fn, job>>

\* image_gen_node that reports the success of the run itself
image_gen_node_writes_success ==
  /\ pc = "image_gen"
  /\ \E ok \in BOOLEAN :
       state' = [state EXCEPT
                   !.stage = IF ok THEN "image_gen_complete" ELSE "image_gen_failed",
                   !.image_gen_result = [success |-> ok],
                   !.success = ok]
  /\ pc' = "listing_review"
  /\ l3_call' = NoL3Call
  /\ UNCHANGED <<files, pending, l3_enabled, numSlots, execs, hist, tasks, fn, job>>

\* nodes.py image_gen_node
image_gen_node ==
  /\ pc = "image_gen"
  /\ \E ok \in BOOLEAN :
       state' = [state EXCEPT
                   !.stage = IF ok THEN "image_gen_complete" ELSE "image_gen_failed",
                   !.image_gen_result = [success |-> ok]]
  /\ pc' = "listing_review"
  /\ l3_call' = NoL3Call
  /\ UNCHANGED <<files, pending, l3_enabled, numSlots, execs, hist, tasks, fn, job>>

\* listing_node that clears the verdict of the attempt it replaces
listing_node_clears_review ==
  /\ pc = "listing"
  /\ \E out \in ListingOutcomes \cup Raises :
       IF out \in Raises
       THEN pc' = "crashed" /\ UNCHANGED <<state, files>>
       ELSE /\ files' = [files EXCEPT !.listing = Written(@, out)]
            /\ state' = [state EXCEPT !.stage = "listing", !.listing_review = None]
            /\ pc' = "listing_review"
  /\ execs' = [execs EXCEPT !["listing"] = Bump(@)]
  /\ l3_call' = NoL3Call
  /\ UNCHANGED <<pending, l3_enabled, numSlots, hist, tasks, fn, job>>

\* nodes.py listing_node (the retry path of the graph)
listing_node ==
  /\ pc = "listing"
  /\ \E out \in ListingOutcomes \cup Raises :
       IF out \in Raises
       THEN pc' = "crashed" /\ UNCHANGED <<state, files>>
       ELSE /\ files' = [files EXCEPT !.listing = Written(@, out)]
            /\ state' = [state EXCEPT !.stage = "listing"]
            /\ pc' = "listing_review"
  /\ execs' = [execs EXCEPT !["listing"] = Bump(@)]
  /\ l3_call' = NoL3Call
  /\ UNCHANGED <<pending, l3_enabled, numSlots, hist, tasks, fn, job>>

\* nodes.py _auto_fix_tags: tags over 20 characters are truncated
_auto_fix_tags(data) == IF data = "longtag" THEN "ok" ELSE data

\* nodes.py listing_review_node: the condition of its Layer-3 review
listing_l3_called(data, l3_active) ==
  data # "absent" /\ _run_layered_review(_auto_fix_tags(data)).passed /\ l3_active

\* nodes.py listing_review_node: the state it returns (Layer 3 is advisory)
listing_review_result(st, data) ==
  IF data = "absent"
  THEN [st EXCEPT !.listing_review = ReadFailure("Failed to read listing"),
                  !.stage = "listing_review"]
  ELSE LET review_result == _run_layered_review(_auto_fix_tags(data))
       IN [st EXCEPT !.retry_counts["listing"] =
                        IF review_result.passed THEN @ ELSE @ + 1,
                     !.listing_review = review_result,
                     !.stage = "listing_review"]

\* nodes.py listing_review_node, then the edge _route_after_listing_review
listing_review_node ==
  /\ pc = "listing_review"
  /\ state' = listing_review_result(state, files.listing)
  /\ files' = [files EXCEPT !.listing = _auto_fix_tags(@)]
  /\ \E l3 \in L3Outcomes :
       l3_call' = L3Call("listing", listing_l3_called(files.listing, l3_enabled), l3)
  /\ hist' = [hist EXCEPT !["listing"] = Push(@, state'.listing_review.passed)]
  /\ pc' = _route_after_listing_review(state')
  /\ UNCHANGED <<pending, l3_enabled, numSlots, execs, tasks, fn, job>>

\* "; ".join(review.errors)
JoinErrors(errors) == [sep |-> "; ", parts |-> errors]

\* workflow.py _completed_node
_completed_node ==
  /\ pc = "completed"
  /\ state' = [state EXCEPT !.stage = "completed", !.success = TRUE, !.final_error = None]
  /\ pc' = "END"
  /\ l3_call' = NoL3Call
  /\ UNCHANGED <<files, pending, l3_enabled, numSlots, execs, hist, tasks, fn, job>>

\* workflow.py _failed_node: the final_error it collects
failed_final_error(st) ==
  LET failing(r) == r # None /\ ~r.passed
      text(r) == IF r.errors # <<>> THEN JoinErrors(r.errors) ELSE [text |-> "Validation failed"]
  IN IF failing(st.listing_review) THEN text(st.listing_review)
     ELSE IF failing(st.nanobanana_review) THEN text(st.nanobanana_review)
     ELSE IF failing(st.strategy_review) THEN text(st.strategy_review)
     ELSE IF failing(st.preprocessing_review) THEN text(st.preprocessing_review)
     ELSE [text |-> "Unknown error"]

\* workflow.py _failed_node
_failed_node ==
  /\ pc = "failed"
  /\ state' = [state EXCEPT !.stage = "failed", !.success = FALSE,
                            !.final_error = failed_final_error(state)]
  /\ pc' = "END"
  /\ l3_call' = NoL3Call
  /\ UNCHANGED <<files, pending, l3_enabled, numSlots, execs, hist, tasks, fn, job>>

\* workflow.py create_workflow: the compiled graph
Next ==
  \/ preprocess_node
  \/ preprocess_review_node
  \/ strategy_node
  \/ strategy_review_node
  \/ nanobanana_fan_out
  \/ \E i \in 1..MaxSlots : prompt_task(i)
  \/ listing_fan_out_node
  \/ prompt_aggregator
  \/ image_gen_node
  \/ listing_node
  \/ listing_review_node
  \/ _completed_node
  \/ _failed_node

Spec == Init /\ [][Next]_vars

\* every node invocation returns, so an enabled node eventually runs
FairSpec == Spec /\ WF_vars(Next)

\* ---------------------------------------- get_next_stage called directly
\* stages a caller can hand to get_next_stage (two lie outside StageType:
\* prompt_aggregator_node and image_gen_node store them)
StageInputs == StageType \cup {"nanobanana_aggregated", "image_gen_complete"}

\* values of a review slot: empty, a passed verdict, a failed verdict
SlotValues ==
  {None, ReviewResult(TRUE, RULES, <<>>, NoText),
   ReviewResult(FALSE, SCHEMA, <<"schema error">>, NoText)}

\* job states handed to get_next_stage, as tests/test_workflow.py builds them:
\* create_initial_state, then stage, review slots and retry counters are set
NextInputs ==
  { [create_initial_state(m, FALSE) EXCEPT
       !.stage = stg,
       !.preprocessing_review = IF w = "preprocessing" THEN a ELSE b,
       !.strategy_review = IF w = "strategy" THEN a ELSE b,
       !.nanobanana_review = IF w = "nanobanana" THEN a ELSE b,
       !.listing_review = IF w = "listing" THEN a ELSE b,
       !.retry_counts = [s \in WorkStages |-> IF s = w THEN c ELSE 0]] :
    m \in 0..MaxRetriesBound, stg \in StageInputs, w \in WorkStages,
    a \in SlotValues, b \in SlotValues, c \in 0..MaxCount }

InitNext ==
  /\ pc = "caller"
  /\ state \in NextInputs
  /\ files = [product_data |-> "absent", strategy |-> "absent",
              listing |-> "absent", prompts |-> None]
  /\ pending = {}
  /\ l3_enabled = TRUE
  /\ numSlots = 1
  /\ execs = [s \in WorkStages |-> 0]
  /\ hist = [s \in WorkStages |-> <<>>]
  /\ tasks = [i \in 1..MaxSlots |-> [runs |-> 0, outcome |-> "none"]]
  /\ fn = [mode |-> "get_next_stage", calls |-> 0, result |-> "none", prev |-> "none"]
  /\ l3_call = NoL3Call
  /\ job = NoJob

\* workflow.py get_next_stage, called on the job state (at most twice)
call_get_next_stage ==
  /\ fn.mode = "get_next_stage"
  /\ fn.calls < 2
  /\ fn' = [fn EXCEPT !.calls = @ + 1, !.result = get_next_stage(state), !.prev = fn.result]
  /\ UNCHANGED <<pc, state, files, pending, l3_enabled, numSlots, execs, hist, tasks, l3_call, job>>

\* between two calls, a field that is none of stage, the review slots,
\* retry_counts and max_retries is written (as the nodes of the graph do)
write_other_field ==
  /\ fn.mode = "get_next_stage"
  /\ fn.calls = 1
  /\ \/ state' = [state EXCEPT !.generate_images = ~@]
     \/ state' = [state EXCEPT !.nanobanana_success = ~@]
     \/ state' = [state EXCEPT !.success = ~@]
  /\ UNCHANGED <<pc, files, pending, l3_enabled, numSlots, execs, hist, tasks, fn, l3_call, job>>

NextNext == call_get_next_stage \/ write_other_field

SpecNext == InitNext /\ [][NextNext]_vars

\* ------------------------------------------- the aggregator called directly
\* a task result of prompt_node, by its external call's outcome
TaskResult(direction, ok) == prompt_node(direction, [k \in 1..MAX_PROMPT_RETRIES |-> IF ok THEN "ok" ELSE "error"])

\* result lists of a fan-out: one result per dispatched slot, in any order
ResultLists ==
  UNION { { r \in [1..n -> {TaskResult(d, ok) : d \in 1..(MaxSlots + 1), ok \in BOOLEAN}] :
              \A i, j \in 1..n : i # j => r[i].direction # r[j].direction } :
          n \in 0..(MaxSlots + 1) }

\* the same results in another order
Reorderings(list) ==
  { [i \in 1..Len(list) |-> list[p[i]]] :
      p \in { q \in [1..Len(list) -> 1..Len(list)] :
                \A i, j \in 1..Len(list) : i # j => q[i] # q[j] } }

InitAgg ==
  /\ pc = "caller"
  /\ \E l \in ResultLists : state = [create_initial_state(0, FALSE) EXCEPT !.prompt_results = l]
  /\ files = [product_data |-> "ok", strategy |-> "ok", listing |-> "absent", prompts |-> None]
  /\ pending = {}
  /\ l3_enabled = TRUE
  /\ numSlots = 1
  /\ execs = [s \in WorkStages |-> 0]
  /\ hist = [s \in WorkStages |-> <<>>]
  /\ tasks = [i \in 1..MaxSlots |-> [runs |-> 0, outcome |-> "none"]]
  /\ fn = [mode |-> "aggregator", calls |-> 0, result |-> None, prev |-> None]
  /\ l3_call = NoL3Call
  /\ job = NoJob

\* nodes.py prompt_aggregator_node, called on a result list (at most twice)
call_prompt_aggregator_node ==
  /\ fn.mode = "aggregator"
  /\ fn.calls < 2
  /\ files' = [files EXCEPT !.prompts = output_data(state.prompt_results)]
  /\ fn' = [fn EXCEPT !.calls = @ + 1,
                      !.result = [artifact |-> files'.prompts,
                                  success |-> prompt_aggregator_node(state).nanobanana_success],
                      !.prev = fn.result]
  /\ UNCHANGED <<pc, state, pending, l3_enabled, numSlots, execs, hist, tasks, l3_call, job>>

\* the same task results complete in another order
complete_in_other_order ==
  /\ fn.mode = "aggregator"
  /\ fn.calls = 1
  /\ \E l \in Reorderings(state.prompt_results) :
       /\ l # state.prompt_results
       /\ state' = [state EXCEPT !.prompt_results = l]
  /\ UNCHANGED <<pc, files, pending, l3_enabled, numSlots, execs, hist, tasks, fn, l3_call, job>>

NextAgg == call_prompt_aggregator_node \/ complete_in_other_order

SpecAgg == InitAgg /\ [][NextAgg]_vars

\* --------------------------------------------- the CLI loop of run_workflow
\* cli.py run_workflow: the state it creates, before the first iteration
InitCli ==
  /\ pc = "cli"
  /\ \E m \in 0..MaxRetriesBound : state = create_initial_state(m, FALSE)
  /\ files = [product_data |-> "absent", strategy |-> "absent",
              listing |-> "absent", prompts |-> None]
  /\ pending = {}
  /\ l3_enabled \in BOOLEAN
  /\ numSlots \in 1..MaxSlots
  /\ execs = [s \in WorkStages |-> 0]
  /\ hist = [s \in WorkStages |-> <<>>]
  /\ tasks = [i \in 1..MaxSlots |-> [runs |-> 0, outcome |-> "none"]]
  /\ \E g \in BOOLEAN : fn = [mode |-> "cli", generate_images |-> g]
  /\ l3_call = NoL3Call
  /\ job = NoJob

\* the loop test of run_workflow after an iteration
LoopOrReturn(st) == IF st.stage \in TerminalStages THEN "END" ELSE "cli"

\* run_workflow calls preprocess_node
cli_preprocess_node ==
  /\ \E out \in GenOutcomes \cup Raises :
       IF out \in Raises
       THEN pc' = "crashed" /\ UNCHANGED <<state, files>>
       ELSE /\ files' = [files EXCEPT !.product_data = Written(@, out)]
            /\ state' = [state EXCEPT !.stage = "preprocessing"]
            /\ pc' = LoopOrReturn(state')
  /\ execs' = [execs EXCEPT !["preprocessing"] = Bump(@)]
  /\ l3_call' = NoL3Call
  /\ UNCHANGED <<hist, tasks>>

\* run_workflow calls nanobanana_node: the prompt tasks are gathered and
\* their results aggregated inside the node
cli_nanobanana_node ==
  /\ IF files.product_data = "absent"
     THEN /\ state' = [state EXCEPT !.stage = "nanobanana"]
          /\ UNCHANGED <<files, tasks>>
     ELSE \E ok \in [1..numSlots -> BOOLEAN] :
            LET all_prompt_results == [i \in 1..numSlots |-> TaskResult(i, ok[i])]
                agg_result == prompt_aggregator_node(
                                [state EXCEPT !.prompt_results = all_prompt_results])
            IN /\ files' = [files EXCEPT !.prompts = output_data(all_prompt_results)]
               /\ state' = [state EXCEPT !.stage = "nanobanana",
                                         !.nanobanana_success = agg_result.nanobanana_success]
               /\ tasks' = [i \in 1..MaxSlots |->
                              IF i <= numSlots
                              THEN [runs |-> Bump(tasks[i].runs),
                                    outcome |-> IF ok[i] THEN "ok" ELSE "failed"]
                              ELSE tasks[i]]
  /\ execs' = [execs EXCEPT !["nanobanana"] = Bump(@)]
  /\ pc' = LoopOrReturn(state')
  /\ l3_call' = NoL3Call
  /\ UNCHANGED hist

\* run_workflow calls listing_node
cli_listing_node ==
  /\ \E out \in ListingOutcomes \cup Raises :
       IF out \in Raises
       THEN pc' = "crashed" /\ UNCHANGED <<state, files>>
       ELSE /\ files' = [files EXCEPT !.listing = Written(@, out)]
            /\ state' = [state EXCEPT !.stage = "listing"]
            /\ pc' = LoopOrReturn(state')
  /\ execs' = [execs EXCEPT !["listing"] = Bump(@)]
  /\ l3_call' = NoL3Call
  /\ UNCHANGED <<hist, tasks>>

\* run_workflow gives up on a stage: the final_error it writes
cli_failed(text) ==
  /\ state' = [state EXCEPT !.stage = "failed", !.final_error = [text |-> text]]
  /\ pc' = LoopOrReturn(state')
  /\ l3_call' = NoL3Call
  /\ UNCHANGED <<files, execs, hist, tasks>>

\* nodes.py nanobanana_review_node: the condition of its Layer-3 review
nanobanana_l3_called(data, l3_active) ==
  data # "absent" /\ _run_layered_review(data).passed /\ l3_active

\* nodes.py nanobanana_review_node: the state it returns
nanobanana_review_result(st, data, l3_active, l3) ==
  LET failed(r) == [st EXCEPT !.nanobanana_review = r,
                              !.stage = "nanobanana_review",
                              !.retry_counts["nanobanana"] = @ + 1]
      l12 == _run_layered_review(data)
      l3_result == _run_semantic_review(l3)
  IN IF data = "absent" THEN failed(ReadFailure("Failed to load prompts file"))
     ELSE IF ~l12.passed THEN failed(l12)
     ELSE IF nanobanana_l3_called(data, l3_active) /\ ~l3_result.passed THEN failed(l3_result)
     ELSE [st EXCEPT !.nanobanana_review =
                        ReviewResult(TRUE, IF l3_active THEN SEMANTIC ELSE RULES, <<>>, NoText),
                     !.stage = "nanobanana_review"]

\* run_workflow, current_stage == "pending"
run_workflow_pending ==
  /\ pc = "cli" /\ state.stage = "pending"
  /\ cli_preprocess_node
  /\ UNCHANGED <<pending, l3_enabled, numSlots, fn, job>>

\* run_workflow, current_stage == "preprocessing"
run_workflow_preprocessing ==
  /\ pc = "cli" /\ state.stage = "preprocessing"
  /\ \E l3 \in L3Outcomes :
       /\ state' = preprocess_review_result(state, files.product_data, l3_enabled, l3)
       /\ l3_call' = L3Call("preprocessing",
                            preprocess_l3_called(files.product_data, l3_enabled), l3)
  /\ hist' = [hist EXCEPT !["preprocessing"] = Push(@, state'.preprocessing_review.passed)]
  /\ pc' = LoopOrReturn(state')
  /\ UNCHANGED <<files, pending, l3_enabled, numSlots, execs, tasks, fn, job>>

\* run_workflow, current_stage == "preprocessing_review"
run_workflow_preprocessing_review ==
  /\ pc = "cli" /\ state.stage = "preprocessing_review"
  /\ IF ReviewPassed(state.preprocessing_review) THEN cli_nanobanana_node
     ELSE IF state.retry_counts["preprocessing"] < state.max_retries THEN cli_preprocess_node
     ELSE cli_failed("Preprocessing failed after {max_retries} retries")
  /\ UNCHANGED <<pending, l3_enabled, numSlots, fn, job>>

\* run_workflow, current_stage == "nanobanana"
run_workflow_nanobanana ==
  /\ pc = "cli" /\ state.stage = "nanobanana"
  /\ \E l3 \in L3Outcomes, cls \in ArtifactClasses :
       LET data == IF files.prompts = None THEN "absent" ELSE cls
       IN /\ state' = nanobanana_review_result(state, data, l3_enabled, l3)
          /\ l3_call' = L3Call("nanobanana", nanobanana_l3_called(data, l3_enabled), l3)
  /\ hist' = [hist EXCEPT !["nanobanana"] = Push(@, state'.nanobanana_review.passed)]
  /\ pc' = LoopOrReturn(state')
  /\ UNCHANGED <<files, pending, l3_enabled, numSlots, execs, tasks, fn, job>>

\* run_workflow, current_stage == "nanobanana_review"
run_workflow_nanobanana_review ==
  /\ pc = "cli" /\ state.stage = "nanobanana_review"
  /\ IF ReviewPassed(state.nanobanana_review) THEN cli_listing_node
     ELSE IF state.retry_counts["nanobanana"] < state.max_retries THEN cli_nanobanana_node
     ELSE cli_failed("NanoBanana failed after {max_retries} retries")
  /\ UNCHANGED <<pending, l3_enabled, numSlots, fn, job>>

\* run_workflow, current_stage == "listing"
run_workflow_listing ==
  /\ pc = "cli" /\ state.stage = "listing"
  /\ state' = listing_review_result(state, files.listing)
  /\ files' = [files EXCEPT !.listing = _auto_fix_tags(@)]
  /\ \E l3 \in L3Outcomes :
       l3_call' = L3Call("listing", listing_l3_called(files.listing, l3_enabled), l3)
  /\ hist' = [hist EXCEPT !["listing"] = Push(@, state'.listing_review.passed)]
  /\ pc' = LoopOrReturn(state')
  /\ UNCHANGED <<pending, l3_enabled, numSlots, execs, tasks, fn, job>>

\* run_workflow, current_stage == "listing_review"
run_workflow_listing_review ==
  /\ pc = "cli" /\ state.stage = "listing_review"
  /\ IF ReviewPassed(state.listing_review)
     THEN /\ state' = IF fn.generate_images
                      THEN [state EXCEPT !.stage = "image_gen"]
                      ELSE [state EXCEPT !.stage = "completed", !.success = TRUE]
          /\ pc' = LoopOrReturn(state')
          /\ l3_call' = NoL3Call
          /\ UNCHANGED <<files, execs, hist, tasks>>
     ELSE IF state.retry_counts["listing"] < state.max_retries THEN cli_listing_node
     ELSE cli_failed("Listing failed after {max_retries} retries")
  /\ UNCHANGED <<pending, l3_enabled, numSlots, fn, job>>

\* run_workflow, current_stage == "image_gen"
run_workflow_image_gen ==
  /\ pc = "cli" /\ state.stage = "image_gen"
  /\ \E ok \in BOOLEAN :
       state' = IF ok
                THEN [state EXCEPT !.image_gen_result = [success |-> TRUE],
                                   !.stage = "completed", !.success = TRUE]
                ELSE [state EXCEPT !.image_gen_result = [success |-> FALSE],
                                   !.stage = "failed",
                                   !.final_error = [text |-> "Image generation failed: {error}"]]
  /\ l3_call' = NoL3Call
  /\ pc' = LoopOrReturn(state')
  /\ UNCHANGED <<files, pending, l3_enabled, numSlots, execs, hist, tasks, fn, job>>

\* cli.py run_workflow: one iteration of its loop
run_workflow ==
  \/ run_workflow_pending
  \/ run_workflow_preprocessing
  \/ run_workflow_preprocessing_review
  \/ run_workflow_nanobanana
  \/ run_workflow_nanobanana_review
  \/ run_workflow_listing
  \/ run_workflow_listing_review
  \/ run_workflow_image_gen

SpecCli == InitCli /\ [][run_workflow]_vars

\* ------------------------------------------- the backend's generation job
\* generate.py generate: the _jobs entry it creates, and the job state that
\* _run_generation_job builds (the backend passes max_retries=5; the model
\* runs the job at the largest retry bound it explores)
InitJob ==
  /\ pc = "job_started"
  /\ \E g \in BOOLEAN : state = create_initial_state(MaxRetriesBound, g)
  /\ files = [product_data |-> "absent", strategy |-> "absent",
              listing |-> "absent", prompts |-> None]
  /\ pending = {}
  /\ l3_enabled \in BOOLEAN
  /\ numSlots \in 1..MaxSlots
  /\ execs = [s \in WorkStages |-> 0]
  /\ hist = [s \in WorkStages |-> <<>>]
  /\ tasks = [i \in 1..MaxSlots |-> [runs |-> 0, outcome |-> "none"]]
  /\ fn = NoFn
  /\ l3_call = NoL3Call
  /\ job = [status |-> "started", results |-> None, error |-> None]

\* generate.py _read_result_files: the artifacts found in the product folder
_read_result_files(product_dir) ==
  [product_data |-> product_dir.product_data,
   listing |-> product_dir.listing,
   prompts |-> product_dir.prompts,
   strategy |-> product_dir.strategy]

\* generate.py _run_generation_job, up to the start of the workflow: the
\* images are saved and the state is built, or the set-up raises
_run_generation_job_setup ==
  /\ pc = "job_started"
  /\ \/ /\ job' = [job EXCEPT !.status = "running"]
        /\ pc' = "preprocess"
     \/ /\ job' = [status |-> "failed", results |-> None,
                   error |-> [text |-> "No images were successfully processed."]]
        /\ pc' = "not_run"
  /\ UNCHANGED <<state, files, pending, l3_enabled, numSlots, execs, hist, tasks, fn, l3_call>>

\* generate.py _run_generation_job, after run_with_events is consumed: the
\* runner turns a raised exception into an error event (workflow_runner.py
\* 119-120) and every event is dropped, so the job is stored as completed
_run_generation_job_done ==
  /\ pc \in {"END", "crashed"}
  /\ job.status = "running"
  /\ job' = [status |-> "completed", results |-> _read_result_files(files), error |-> None]
  /\ UNCHANGED <<pc, state, files, pending, l3_enabled, numSlots, execs, hist, tasks, fn, l3_call>>

NextJob ==
  \/ _run_generation_job_setup
  \/ Next
  \/ _run_generation_job_done

SpecJob == InitJob /\ [][NextJob]_vars

\* ------------------------------------------------ two jobs run concurrently
\* the identities of the two jobs
JobIds == {"job_a", "job_b"}

\* create_initial_state that hands every job the same retry_counts object
shared_retry_counts(heap) == 1

\* state.py create_initial_state: retry_counts is a dict literal, a new
\* object of the heap on every call
fresh_retry_counts(heap) == Len(heap) + 1

\* the heap with the object at ref (re)initialised to value
Allocate(heap, ref, value) ==
  IF ref <= Len(heap) THEN [heap EXCEPT ![ref] = value] ELSE Append(heap, value)

\* the job state of job j with its retry_counts object read from the heap
Deref(f, j) == [f.jobs[j] EXCEPT !.retry_counts = f.heap[@]]

InitIso ==
  /\ pc = "jobs"
  /\ state = create_initial_state(0, FALSE)
  /\ files = [product_data |-> "absent", strategy |-> "absent",
              listing |-> "absent", prompts |-> None]
  /\ pending = {}
  /\ l3_enabled = TRUE
  /\ numSlots = 1
  /\ execs = [s \in WorkStages |-> 0]
  /\ hist = [s \in WorkStages |-> <<>>]
  /\ tasks = [i \in 1..MaxSlots |-> [runs |-> 0, outcome |-> "none"]]
  /\ fn = [mode |-> "jobs", heap |-> <<>>, jobs |-> [j \in JobIds |-> None],
           actor |-> "none", reads |-> {}]
  /\ l3_call = NoL3Call
  /\ job = NoJob

\* workflow_runner.py WorkflowRunner.build_state for job j
build_state(j) ==
  /\ fn.mode = "jobs"
  /\ fn.jobs[j] = None
  /\ LET ref == fresh_retry_counts(fn.heap)
         st == create_initial_state(MaxRetriesBound, FALSE)
     IN fn' = [fn EXCEPT !.heap = Allocate(@, ref, st.retry_counts),
                         !.jobs[j] = [st EXCEPT !.retry_counts = ref],
                         !.actor = j,
                         !.reads = {}]
  /\ UNCHANGED <<pc, state, files, pending, l3_enabled, numSlots, execs, hist, tasks, l3_call, job>>

\* strategy_review_node run on the state of job j: it writes the verdict
\* slot and increments the job's retry_counts object in place
job_strategy_review_node(j) ==
  /\ fn.mode = "jobs"
  /\ fn.jobs[j] # None
  /\ IF fn.jobs[j].strategy_review = None THEN TRUE
     ELSE ~fn.jobs[j].strategy_review.passed /\ should_retry(Deref(fn, j), "strategy")
  /\ \E data \in {"absent", "l1bad", "ok"}, l3 \in {"PASS", "FAIL"} :
       LET st == strategy_review_result(Deref(fn, j), data, l3_enabled, l3)
           ref == fn.jobs[j].retry_counts
       IN fn' = [fn EXCEPT !.heap[ref] = st.retry_counts,
                           !.jobs[j] = [st EXCEPT !.retry_counts = ref],
                           !.actor = j,
                           !.reads = {ref}]
  /\ UNCHANGED <<pc, state, files, pending, l3_enabled, numSlots, execs, hist, tasks, l3_call, job>>

\* prompt_node run for job j: its result is merged into the job's
\* prompt_results by the operator.add reducer
job_prompt_node(j) ==
  /\ fn.mode = "jobs"
  /\ fn.jobs[j] # None
  /\ ReviewPassed(fn.jobs[j].strategy_review)
  /\ Len(fn.jobs[j].prompt_results) < MaxSlots
  /\ \E ok \in BOOLEAN :
       fn' = [fn EXCEPT !.jobs[j].prompt_results =
                           Append(@, TaskResult(Len(@) + 1, ok)),
                        !.actor = j,
                        !.reads = {}]
  /\ UNCHANGED <<pc, state, files, pending, l3_enabled, numSlots, execs, hist, tasks, l3_call, job>>

NextIso ==
  \E j \in JobIds :
    \/ build_state(j)
    \/ job_strategy_review_node(j)
    \/ job_prompt_node(j)

SpecIso == InitIso /\ [][NextIso]_vars

\* ------------------------------------- the retry loop inside a prompt task
\* what one agentic_loop call of a prompt task gives: text that validates,
\* text with validation warnings, empty text, a result carrying an API
\* error, RuntimeError (turns exhausted without text), or no return value
\* (turns exhausted with text), on which prompt_node raises TypeError
AgenticOutcomes == {"text", "text_warn", "empty", "error", "RuntimeError", "no_return"}

\* a retry loop that also retries a prompt with validation warnings
retry_attempt_on_warnings(out) == out \in {"text_warn", "empty", "error", "RuntimeError"}

\* nodes.py prompt_node: the attempts after which the loop continues
retry_attempt(out) == out \in {"empty", "error", "RuntimeError"}

\* the loop of a prompt task that has not started
NoLoop == [at |-> "idle", attempt |-> 0, result |-> NoText, calls |-> 0,
           first |-> "none", returned |-> None]

InitPrompt ==
  /\ pc = "fan_out"
  /\ \E g \in BOOLEAN :
       state = [create_initial_state(MaxRetriesBound, g) EXCEPT !.stage = "strategy_review"]
  /\ files = [product_data |-> "ok", strategy |-> "ok",
              listing |-> "absent", prompts |-> None]
  /\ numSlots \in 1..MaxSlots
  /\ pending = 1..numSlots
  /\ l3_enabled \in BOOLEAN
  /\ execs = [s \in WorkStages |-> 0]
  /\ hist = [s \in WorkStages |-> <<>>]
  /\ tasks = [i \in 1..MaxSlots |-> [runs |-> 0, outcome |-> "none"]]
  /\ fn = [mode |-> "prompt", loop |-> [i \in 1..MaxSlots |-> NoLoop]]
  /\ l3_call = NoL3Call
  /\ job = NoJob

\* prompt_node up to its retry loop: the task starts
prompt_node_start(i) ==
  /\ fn.mode = "prompt"
  /\ i \in pending
  /\ fn.loop[i].at = "idle"
  /\ fn' = [fn EXCEPT !.loop[i].at = "loop"]
  /\ UNCHANGED <<pc, state, files, pending, l3_enabled, numSlots, execs, hist, tasks, l3_call, job>>

\* one iteration of for attempt in range(MAX_PROMPT_RETRIES): the
\* agentic_loop call, then continue or break
prompt_node_attempt(i) ==
  /\ fn.mode = "prompt"
  /\ fn.loop[i].at = "loop"
  /\ fn.loop[i].attempt < MAX_PROMPT_RETRIES
  /\ \E out \in AgenticOutcomes :
       LET l == fn.loop[i]
           called == [l EXCEPT !.calls = @ + 1,
                               !.first = IF l.calls = 0 THEN out ELSE @]
       IN fn' = [fn EXCEPT !.loop[i] =
                   IF out = "no_return"
                   THEN [called EXCEPT !.at = "raised"]
                   ELSE IF retry_attempt(out)
                   THEN [called EXCEPT !.result = NoText, !.attempt = @ + 1]
                   ELSE [called EXCEPT !.result = out, !.at = "after_loop"]]
  /\ UNCHANGED <<pc, state, files, pending, l3_enabled, numSlots, execs, hist, tasks, l3_call, job>>

\* prompt_node after its loop: the result record, merged into
\* prompt_results by the operator.add reducer
prompt_node_return(i) ==
  /\ fn.mode = "prompt"
  /\ \/ fn.loop[i].at = "after_loop"
     \/ fn.loop[i].at = "loop" /\ fn.loop[i].attempt >= MAX_PROMPT_RETRIES
  /\ LET l == fn.loop[i]
         made == prompt_node(i, [k \in 1..MAX_PROMPT_RETRIES |->
                                   IF l.result = NoText THEN "error" ELSE "ok"])
         result == [made EXCEPT !.error = IF l.result = "text_warn"
                                          THEN "Validation warnings: {errors}" ELSE @]
     IN /\ fn' = [fn EXCEPT !.loop[i].at = "done", !.loop[i].returned = result]
        /\ state' = [state EXCEPT !.prompt_results = Append(@, result)]
        /\ tasks' = [tasks EXCEPT ![i] = [runs |-> Bump(@.runs),
                                          outcome |-> IF result.success THEN "ok" ELSE "failed"]]
  /\ pending' = pending \ {i}
  /\ UNCHANGED <<pc, files, l3_enabled, numSlots, execs, hist, l3_call, job>>

NextPrompt ==
  \E i \in 1..MaxSlots :
    \/ prompt_node_start(i)
    \/ prompt_node_attempt(i)
    \/ prompt_node_return(i)

SpecPrompt == InitPrompt /\ [][NextPrompt]_vars

\* --------------------------------------------- runs of either entry point
\* a run is started through the compiled graph (workflow.py create_workflow)
\* or through the CLI loop (cli.py run_workflow)
InitRuns == Init \/ InitCli

NextRuns == Next \/ run_workflow

SpecRuns == InitRuns /\ [][NextRuns]_vars

\* ------------------------------- the prompt_results channel and its reducer
\* longest prompt_results list with which listing_node is still retried
ResultsCap == 4 * MaxSlots

\* state.py ProductState: prompt_results is Annotated[list[dict], operator.add],
\* so an update a node returns for the key is added to the channel's value
operator_add(channel, update) == channel \o update

\* the state after a node that returns the whole state: every key is written,
\* prompt_results through its reducer
write_state(old, update) ==
  [update EXCEPT !.prompt_results = operator_add(old.prompt_results, @)]

InitReducer ==
  /\ pc = "preprocess"
  /\ \E m \in 0..MaxRetriesBound, g \in BOOLEAN : state = create_initial_state(m, g)
  /\ files = [product_data |-> "absent", strategy |-> "absent",
              listing |-> "absent", prompts |-> None]
  /\ pending = {}
  /\ l3_enabled \in BOOLEAN
  /\ numSlots \in 1..MaxSlots
  /\ execs = [s \in WorkStages |-> 0]
  /\ hist = [s \in WorkStages |-> <<>>]
  /\ tasks = [i \in 1..MaxSlots |-> [runs |-> 0, outcome |-> "none"]]
  /\ fn = [mode |-> "reducer"]
  /\ l3_call = NoL3Call
  /\ job = NoJob

\* prompt_aggregator_node returns {**state, ...}
reducer_prompt_aggregator ==
  /\ pc = "fan_out"
  /\ pending = {}
  /\ state' = write_state(state, prompt_aggregator_node(state))
  /\ files' = [files EXCEPT !.prompts = output_data(state.prompt_results)]
  /\ pc' = _route_after_aggregator(state')
  /\ l3_call' = NoL3Call
  /\ UNCHANGED <<pending, l3_enabled, numSlots, execs, hist, tasks, fn, job>>

\* image_gen_node returns state
reducer_image_gen_node ==
  /\ pc = "image_gen"
  /\ \E ok \in BOOLEAN :
       state' = write_state(state,
                  [state EXCEPT
                     !.stage = IF ok THEN "image_gen_complete" ELSE "image_gen_failed",
                     !.image_gen_result = [success |-> ok]])
  /\ pc' = "listing_review"
  /\ l3_call' = NoL3Call
  /\ UNCHANGED <<files, pending, l3_enabled, numSlots, execs, hist, tasks, fn, job>>

\* listing_node returns state
reducer_listing_node ==
  /\ pc = "listing"
  /\ Len(state.prompt_results) <= ResultsCap
  /\ \E out \in ListingOutcomes \cup Raises :
       IF out \in Raises
       THEN pc' = "crashed" /\ UNCHANGED <<state, files>>
       ELSE /\ files' = [files EXCEPT !.listing = Written(@, out)]
            /\ state' = write_state(state, [state EXCEPT !.stage = "listing"])
            /\ pc' = "listing_review"
  /\ execs' = [execs EXCEPT !["listing"] = Bump(@)]
  /\ l3_call' = NoL3Call
  /\ UNCHANGED <<pending, l3_enabled, numSlots, hist, tasks, fn, job>>

\* listing_review_node returns state
reducer_listing_review_node ==
  /\ pc = "listing_review"
  /\ state' = write_state(state, listing_review_result(state, files.listing))
  /\ files' = [files EXCEPT !.listing = _auto_fix_tags(@)]
  /\ \E l3 \in L3Outcomes :
       l3_call' = L3Call("listing", listing_l3_called(files.listing, l3_enabled), l3)
  /\ hist' = [hist EXCEPT !["listing"] = Push(@, state'.listing_review.passed)]
  /\ pc' = _route_after_listing_review(state')
  /\ UNCHANGED <<pending, l3_enabled, numSlots, execs, tasks, fn, job>>

\* _completed_node returns state
reducer_completed_node ==
  /\ pc = "completed"
  /\ state' = write_state(state, [state EXCEPT !.stage = "completed", !.success = TRUE,
                                               !.final_error = None])
  /\ pc' = "END"
  /\ l3_call' = NoL3Call
  /\ UNCHANGED <<files, pending, l3_enabled, numSlots, execs, hist, tasks, fn, job>>

\* _failed_node returns state
reducer_failed_node ==
  /\ pc = "failed"
  /\ state' = write_state(state, [state EXCEPT !.stage = "failed", !.success = FALSE,
                                               !.final_error = failed_final_error(state)])
  /\ pc' = "END"
  /\ l3_call' = NoL3Call
  /\ UNCHANGED <<files, pending, l3_enabled, numSlots, execs, hist, tasks, fn, job>>

\* the compiled graph with the reducer applied to the nodes that run once
\* prompt_results can be non-empty; the nodes before the fan-out return a
\* state whose prompt_results is empty, and adding it changes nothing
NextReducer ==
  \/ preprocess_node
  \/ preprocess_review_node
  \/ strategy_node
  \/ strategy_review_node
  \/ nanobanana_fan_out
  \/ \E i \in 1..MaxSlots : prompt_task(i)
  \/ listing_fan_out_node
  \/ reducer_prompt_aggregator
  \/ reducer_image_gen_node
  \/ reducer_listing_node
  \/ reducer_listing_review_node
  \/ reducer_completed_node
  \/ reducer_failed_node

SpecReducer == InitReducer /\ [][NextReducer]_vars

\* ------------------------------------------ the inputs of the fan-out tasks
\* the input Send("prompt_node", {...}) carries: product_data and slot_info
\* are objects json.load has just created
PromptPayload(direction, product_data, slot_info) ==
  [node |-> "prompt_node", direction |-> direction,
   product_data |-> product_data, slot_info |-> slot_info]

\* the input Send("listing_fan_out", dict(state)) carries: a new dict with the
\* keys of the job state, whose values are the objects the job state holds
ListingPayload(st) == [node |-> "listing_fan_out", arg |-> st]

\* the heap objects an input refers to, and those the job state refers to
PayloadRefs(p) ==
  IF p.node = "prompt_node" THEN {p.product_data, p.slot_info} ELSE {p.arg.retry_counts}
StateRefs(st) == {st.retry_counts}

InitSend ==
  /\ pc = "send"
  /\ state = create_initial_state(0, FALSE)
  /\ files = [product_data |-> "ok", strategy |-> "ok",
              listing |-> "absent", prompts |-> None]
  /\ pending = {}
  /\ l3_enabled = TRUE
  /\ numSlots \in 1..MaxSlots
  /\ execs = [s \in WorkStages |-> 0]
  /\ hist = [s \in WorkStages |-> <<>>]
  /\ tasks = [i \in 1..MaxSlots |-> [runs |-> 0, outcome |-> "none"]]
  /\ \E m \in 0..MaxRetriesBound, g \in BOOLEAN,
        p \in 0..MaxRetriesBound, s \in 0..MaxRetriesBound :
       LET st == create_initial_state(m, g)
           counts == [st.retry_counts EXCEPT !["preprocessing"] = p, !["strategy"] = s]
       IN fn = [mode |-> "send",
                heap |-> <<counts>>,
                state |-> [st EXCEPT !.retry_counts = 1,
                                     !.stage = "nanobanana",
                                     !.preprocessing_review = ReviewResult(TRUE, RULES, <<>>, NoText),
                                     !.strategy_review = ReviewResult(TRUE, RULES, <<>>, NoText)],
                sends |-> [t \in 0..MaxSlots |-> None],
                dispatched |-> FALSE]
  /\ l3_call = NoL3Call
  /\ job = NoJob

\* workflow.py _fan_out_to_prompts: one Send per slot and one for the listing
send_fan_out_to_prompts ==
  /\ fn.mode = "send"
  /\ ~fn.dispatched
  /\ LET product_data == Len(fn.heap) + 1
         slot(i) == Len(fn.heap) + 1 + i
     IN fn' = [fn EXCEPT
                 !.heap = @ \o <<"product_data">> \o [i \in 1..numSlots |-> "slot"],
                 !.sends = [t \in 0..MaxSlots |->
                              IF t = ListingTask THEN ListingPayload(fn.state)
                              ELSE IF t <= numSlots
                              THEN PromptPayload(t, product_data, slot(t))
                              ELSE None],
                 !.dispatched = TRUE]
  /\ pending' = (1..numSlots) \cup {ListingTask}
  /\ UNCHANGED <<pc, state, files, l3_enabled, numSlots, execs, hist, tasks, l3_call, job>>

\* prompt_node run on its input: its result is added to prompt_results
send_prompt_node(i) ==
  /\ fn.mode = "send"
  /\ i \in pending /\ i # ListingTask
  /\ \E attempts \in [1..MAX_PROMPT_RETRIES -> AttemptOutcomes] :
       fn' = [fn EXCEPT !.state.prompt_results = Append(@, prompt_node(i, attempts))]
  /\ pending' = pending \ {i}
  /\ UNCHANGED <<pc, state, files, l3_enabled, numSlots, execs, hist, tasks, l3_call, job>>

\* listing_fan_out_node run on its input: listing_node sets stage in the
\* dict it was given, and the node returns an empty prompt_results
send_listing_fan_out_node ==
  /\ fn.mode = "send"
  /\ ListingTask \in pending
  /\ \E out \in ListingOutcomes :
       files' = [files EXCEPT !.listing = Written(@, out)]
  /\ fn' = [fn EXCEPT !.sends[ListingTask].arg.stage = "listing",
                      !.state.prompt_results = @ \o <<>>]
  /\ pending' = pending \ {ListingTask}
  /\ UNCHANGED <<pc, state, l3_enabled, numSlots, execs, hist, tasks, l3_call, job>>

NextSend ==
  \/ send_fan_out_to_prompts
  \/ \E i \in 1..MaxSlots : send_prompt_node(i)
  \/ send_listing_fan_out_node

SpecSend == InitSend /\ [][NextSend]_vars

\* ---------------------- one job run by the graph, then by the CLI loop
\* a is a prefix of b
IsPrefix(a, b) == Len(a) <= Len(b) /\ SubSeq(b, 1, Len(a)) = a

\* the stages whose review both entry points run
SharedGates == {"preprocessing", "listing"}

\* what the run of the graph has met: its review verdicts, the outcomes of
\* its fan-out tasks, its image generation, and the stage it ended in
GraphRun ==
  [stage |-> state.stage,
   hist |-> [s \in SharedGates |-> hist[s]],
   tasks |-> [i \in 1..MaxSlots |-> tasks[i].outcome],
   image_gen_result |-> state.image_gen_result]

\* the run of the CLI loop has met nothing the run of the graph has not
FollowsGraph ==
  /\ \A s \in SharedGates : IsPrefix(hist[s], fn.graph.hist[s])
  /\ \A i \in 1..MaxSlots : tasks[i].outcome \in {"none", fn.graph.tasks[i]}
  /\ state.image_gen_result \in {None, fn.graph.image_gen_result}

\* the graph has ended: the same job, with the same max_retries and
\* generate_images, is started again through cli.py run_workflow
replay_in_cli ==
  /\ pc = "END"
  /\ fn.mode = "graph"
  /\ pc' = "cli"
  /\ state' = create_initial_state(state.max_retries, FALSE)
  /\ files' = [product_data |-> "absent", strategy |-> "absent",
               listing |-> "absent", prompts |-> None]
  /\ pending' = {}
  /\ execs' = [s \in WorkStages |-> 0]
  /\ hist' = [s \in WorkStages |-> <<>>]
  /\ tasks' = [i \in 1..MaxSlots |-> [runs |-> 0, outcome |-> "none"]]
  /\ fn' = [mode |-> "replay", generate_images |-> state.generate_images,
            graph |-> GraphRun]
  /\ l3_call' = NoL3Call
  /\ UNCHANGED <<l3_enabled, numSlots, job>>

\* an iteration of run_workflow that meets the verdicts and outcomes the
\* graph has met
replay_run_workflow ==
  /\ fn.mode = "replay"
  /\ run_workflow
  /\ FollowsGraph'

NextBoth == Next \/ replay_in_cli \/ replay_run_workflow

SpecBoth == Init /\ [][NextBoth]_vars

\* ------------------------------------------------- the backend's job worker
\* job.py VALID_JOB_STATUSES: the job statuses in lifecycle order
VALID_JOB_STATUSES ==
  <<"queued", "strategy", "batch_submitted", "generating", "completed", "failed">>

\* job_service.py JobService.create_job: a new job, queued
create_job ==
  [status |-> "queued", progress |-> 0, stage_name |-> "queued", error_message |-> NoText]

\* job_service.py JobService.update_status, called with a progress and a stage name
update_status(j, status, progress, stage_name) ==
  [j EXCEPT !.status = status, !.progress = progress, !.stage_name = stage_name]

\* job_service.py JobService.mark_strategy
mark_strategy(j) == update_status(j, "strategy", 10, "building strategy")

\* job_service.py JobService.mark_generating
mark_generating(j) == update_status(j, "generating", 50, "generating images")

\* job_service.py JobService.mark_completed
mark_completed(j) ==
  [j EXCEPT !.status = "completed", !.progress = 100, !.stage_name = "completed"]

\* job_service.py JobService.mark_failed: update_status without a progress
mark_failed(j, error_message) ==
  [j EXCEPT !.status = "failed", !.stage_name = "failed", !.error_message = error_message]

\* str(e) of an exception a node raised (it may be empty)
ExceptionTexts == {"", "timed out", "overloaded", "boom"}

\* job_worker.py _friendly_error_message
_friendly_error_message(raw) ==
  IF raw = "overloaded"
  THEN "Generation service is temporarily busy - please try again in a moment."
  ELSE IF raw = "timed out" THEN "Generation timed out - please try again."
  ELSE "Generation failed - please try again."

\* an event of run_with_events: its name, data["node"] and data["message"]
\* ("" where the data has no such key)
Event(event, node, message) == [event |-> event, node |-> node, message |-> message]

\* job_worker.py run_job, create_job before it: the job is queued, the graph
\* has not started (run_job builds the state with generate_images=False; the
\* drain loop builds it with the request's flag)
InitWorker(consumer) ==
  /\ pc = "preprocess"
  /\ \E g \in BOOLEAN :
       state = create_initial_state(MaxRetriesBound, consumer = "drain" /\ g)
  /\ files = [product_data |-> "absent", strategy |-> "absent",
              listing |-> "absent", prompts |-> None]
  /\ pending = {}
  /\ l3_enabled \in BOOLEAN
  /\ numSlots \in 1..MaxSlots
  /\ execs = [s \in WorkStages |-> 0]
  /\ hist = [s \in WorkStages |-> <<>>]
  /\ tasks = [i \in 1..MaxSlots |-> [runs |-> 0, outcome |-> "none"]]
  /\ \E g \in BOOLEAN :
       fn = [mode |-> "worker", consumer |-> consumer,
             rj |-> IF consumer = "run_job" THEN "start" ELSE "loop",
             generate_images |-> consumer = "run_job" /\ g,
             started |-> FALSE, ended |-> FALSE, closed |-> FALSE,
             cursor |-> [pc |-> "preprocess", pending |-> {}],
             queue |-> <<>>, emitted |-> {}, completed_nodes |-> {}, image_i |-> 0]
  /\ l3_call = NoL3Call
  /\ job = create_job

\* job_worker.py run_job up to the event loop: mark_strategy, then the images
\* are compressed and the state is built, or that raises
run_job_start ==
  /\ fn.mode = "worker" /\ fn.rj = "start"
  /\ \/ /\ job' = mark_strategy(job)
        /\ fn' = [fn EXCEPT !.rj = "loop"]
     \/ \E raw \in ExceptionTexts :
          /\ job' = mark_failed(mark_strategy(job), _friendly_error_message(raw))
          /\ fn' = [fn EXCEPT !.rj = "done", !.closed = TRUE]
  /\ UNCHANGED <<pc, state, files, pending, l3_enabled, numSlots, execs, hist, tasks, l3_call>>

\* workflow_runner.py run_with_events: the start event
run_with_events_start ==
  /\ fn.mode = "worker" /\ fn.rj = "loop" /\ ~fn.started
  /\ fn' = [fn EXCEPT !.started = TRUE, !.queue = <<Event("start", "", "")>>]
  /\ UNCHANGED <<pc, state, files, pending, l3_enabled, numSlots, execs, hist, tasks, l3_call, job>>

\* the graph runs one node while run_with_events waits on astream
astream ==
  /\ fn.mode = "worker"
  /\ fn.started /\ ~fn.ended /\ ~fn.closed
  /\ fn.queue = <<>>
  /\ fn.cursor = [pc |-> pc, pending |-> pending]
  /\ Next

\* the node whose update astream hands over: the one that ran last
UpdatedNode ==
  IF fn.cursor.pc # "fan_out" THEN fn.cursor.pc
  ELSE IF pending = fn.cursor.pending THEN "prompt_aggregator"
  ELSE IF ListingTask \in fn.cursor.pending \ pending THEN "listing_fan_out"
  ELSE "prompt_node"

\* workflow_runner.py run_with_events: the events yielded for one update
UpdateEvents(node_name, update, product_dir) ==
  (IF node_name = "strategy" /\ product_dir.product_data # "absent"
                             /\ product_dir.strategy # "absent"
   THEN <<Event("strategy_complete", "", "")>> ELSE <<>>)
  \o (IF node_name = "image_gen" /\ update.image_gen_result # None
      THEN IF update.image_gen_result.success
           THEN <<Event("image_complete", "", ""), Event("image_done", "", "")>>
           ELSE <<Event("image_done", "", "")>>
      ELSE <<>>)
  \o (IF node_name = "failed"
      THEN <<Event("error", "", "final_error")>>
      ELSE <<Event("progress", node_name, "Completed")>>)

\* workflow_runner.py run_with_events: one update of astream is turned into
\* events; an exception raised by the graph becomes an error event and ends
\* the stream
run_with_events_update ==
  /\ fn.mode = "worker" /\ fn.started /\ ~fn.ended /\ ~fn.closed
  /\ fn.queue = <<>>
  /\ fn.cursor # [pc |-> pc, pending |-> pending]
  /\ IF pc = "crashed"
     THEN \E raw \in ExceptionTexts :
            fn' = [fn EXCEPT !.queue = <<Event("error", "", raw)>>,
                             !.cursor = [pc |-> pc, pending |-> pending],
                             !.ended = TRUE]
     ELSE fn' = [fn EXCEPT !.queue = UpdateEvents(UpdatedNode, state, files),
                           !.cursor = [pc |-> pc, pending |-> pending]]
  /\ UNCHANGED <<pc, state, files, pending, l3_enabled, numSlots, execs, hist, tasks, l3_call, job>>

\* workflow_runner.py run_with_events: astream is exhausted, the complete
\* event is yielded
run_with_events_complete ==
  /\ fn.mode = "worker" /\ fn.started /\ ~fn.ended /\ ~fn.closed
  /\ fn.queue = <<>>
  /\ pc = "END" /\ fn.cursor = [pc |-> pc, pending |-> pending]
  /\ fn' = [fn EXCEPT !.queue = <<Event("complete", "", "")>>, !.ended = TRUE]
  /\ UNCHANGED <<pc, state, files, pending, l3_enabled, numSlots, execs, hist, tasks, l3_call, job>>

\* job_worker.py run_job: the progress stored for a newly completed node
node_progress(completed_nodes) ==
  LET p == 10 + (Cardinality(completed_nodes) * 45) \div 4
  IN IF p < 55 THEN p ELSE 55

\* run_job whose loop does not raise on an error event
run_job_event_ignoring_errors ==
  /\ fn.mode = "worker" /\ fn.consumer = "run_job" /\ fn.rj = "loop"
  /\ fn.queue # <<>>
  /\ LET event == Head(fn.queue)
         fresh == event.node # "" /\ event.node \notin fn.completed_nodes
         nodes == IF fresh THEN fn.completed_nodes \cup {event.node}
                  ELSE fn.completed_nodes
         j1 == IF fresh
               THEN update_status(job, "strategy", node_progress(nodes), event.node)
               ELSE job
         j2 == IF event.event = "strategy_complete" THEN mark_generating(j1) ELSE j1
     IN /\ job' = j2
        /\ fn' = [fn EXCEPT !.queue = Tail(@), !.completed_nodes = nodes,
                            !.emitted = @ \cup {event.event}]
  /\ UNCHANGED <<pc, state, files, pending, l3_enabled, numSlots, execs, hist, tasks, l3_call>>

\* job_worker.py run_job: one iteration of its loop over run_with_events; an
\* error event raises, and the except block marks the job failed
run_job_event ==
  /\ fn.mode = "worker" /\ fn.consumer = "run_job" /\ fn.rj = "loop"
  /\ fn.queue # <<>>
  /\ LET event == Head(fn.queue)
         fresh == event.node # "" /\ event.node \notin fn.completed_nodes
         nodes == IF fresh THEN fn.completed_nodes \cup {event.node}
                  ELSE fn.completed_nodes
         j1 == IF fresh
               THEN update_status(job, "strategy", node_progress(nodes), event.node)
               ELSE job
         j2 == IF event.event = "strategy_complete" THEN mark_generating(j1) ELSE j1
     IN IF event.event = "error"
        THEN /\ job' = mark_failed(j2, _friendly_error_message(event.message))
             /\ fn' = [fn EXCEPT !.queue = <<>>, !.completed_nodes = nodes,
                                 !.emitted = @ \cup {event.event},
                                 !.rj = "done", !.closed = TRUE]
        ELSE /\ job' = j2
             /\ fn' = [fn EXCEPT !.queue = Tail(@), !.completed_nodes = nodes,
                                 !.emitted = @ \cup {event.event}]
  /\ UNCHANGED <<pc, state, files, pending, l3_enabled, numSlots, execs, hist, tasks, l3_call>>

\* image_generator.py parse_nanobanana_json: the entries of the prompts file
parse_nanobanana_json(prompts_file) ==
  IF prompts_file = None THEN <<>> ELSE prompts_file.prompts

\* job_worker.py run_job after the loop: the results are stored; without
\* image generation, or without prompt entries, the job is completed, else
\* _run_batch_image_generation marks it generating
run_job_store ==
  /\ fn.mode = "worker" /\ fn.consumer = "run_job" /\ fn.rj = "loop"
  /\ fn.started /\ fn.ended /\ fn.queue = <<>>
  /\ \/ IF fn.generate_images /\ parse_nanobanana_json(files.prompts) # <<>>
        THEN /\ job' = update_status(job, "generating", 60, "generating_images")
             /\ fn' = [fn EXCEPT !.rj = "batch", !.image_i = 0]
        ELSE /\ job' = mark_completed(job)
             /\ fn' = [fn EXCEPT !.rj = "done"]
     \/ \E raw \in ExceptionTexts :
          /\ job' = mark_failed(job, _friendly_error_message(raw))
          /\ fn' = [fn EXCEPT !.rj = "done"]
  /\ UNCHANGED <<pc, state, files, pending, l3_enabled, numSlots, execs, hist, tasks, l3_call>>

\* job_worker.py _run_batch_image_generation: one entry is generated and the
\* progress stored, or its generation fails and is skipped; after the last
\* entry run_job marks the job completed
_run_batch_image_generation ==
  /\ fn.mode = "worker" /\ fn.rj = "batch"
  /\ LET entries == parse_nanobanana_json(files.prompts)
         i == fn.image_i
     IN IF i < Len(entries)
        THEN /\ \E generated \in BOOLEAN :
                  job' = IF generated
                         THEN update_status(job, "generating",
                                            60 + ((i + 1) * 35) \div Len(entries),
                                            "image_{i+1}_of_{len(entries)}")
                         ELSE job
             /\ fn' = [fn EXCEPT !.image_i = i + 1]
        ELSE /\ job' = mark_completed(job)
             /\ fn' = [fn EXCEPT !.rj = "done"]
  /\ UNCHANGED <<pc, state, files, pending, l3_enabled, numSlots, execs, hist, tasks, l3_call>>

\* generate.py _run_generation_job: its loop takes the next event and drops it
drain_event ==
  /\ fn.mode = "worker" /\ fn.consumer = "drain"
  /\ fn.queue # <<>>
  /\ fn' = [fn EXCEPT !.queue = Tail(@), !.emitted = @ \cup {Head(fn.queue).event}]
  /\ UNCHANGED <<pc, state, files, pending, l3_enabled, numSlots, execs, hist, tasks, l3_call, job>>

NextWorker ==
  \/ run_job_start
  \/ run_with_events_start
  \/ astream
  \/ run_with_events_update
  \/ run_with_events_complete
  \/ run_job_event
  \/ run_job_store
  \/ _run_batch_image_generation

\* run_job on every run of the graph
SpecWorker == InitWorker("run_job") /\ [][NextWorker]_vars

NextStream ==
  \/ run_with_events_start
  \/ astream
  \/ run_with_events_update
  \/ run_with_events_complete
  \/ drain_event

\* run_with_events iterated to its end, on every run of the graph
SpecStream == InitWorker("drain") /\ [][NextStream]_vars

\* ------------------------------------------------------------------ claims
\* the work stages behind a review gate in the graph
GatedStages == {"preprocessing", "strategy", "listing"}

\* C1: in every run each review-gated work stage (preprocessing, strategy,
\* listing) is executed at most max_retries + 1 times.
C1_RetryBound ==
  \A s \in GatedStages : execs[s] <= state.max_retries + 1

\* C2: with max_retries = 2, after the preprocessing review failed on the first
\* and second attempts the stage gets its third attempt, and when that attempt
\* passes the run is at the strategy stage with retry_counts["preprocessing"] = 2.
C2_ThirdAttempt ==
  state.max_retries = 2 =>
    /\ hist["preprocessing"] = <<FALSE, FALSE>> => pc \in {"preprocess", "preprocess_review"}
    /\ hist["preprocessing"] = <<FALSE, FALSE, TRUE>> =>
         /\ state.retry_counts["preprocessing"] = 2
         /\ pc = "strategy" \/ execs["strategy"] >= 1

\* C4: every run reaches the stage completed or failed after finitely many
\* node executions, whatever the review verdicts and artifact reads are.
C4_Terminates == <>(state.stage \in TerminalStages)

\* ---- C3
\* the work stage a review stage gates, and the stage that follows it
WorkOf(review_stage) ==
  CASE review_stage = "preprocessing_review" -> "preprocessing"
    [] review_stage = "strategy_review" -> "strategy"
    [] review_stage = "nanobanana_review" -> "nanobanana"
    [] review_stage = "listing_review" -> "listing"
AfterReview(review_stage) ==
  CASE review_stage = "preprocessing_review" -> "strategy"
    [] review_stage = "strategy_review" -> "nanobanana"
    [] review_stage = "nanobanana_review" -> "listing"
    [] review_stage = "listing_review" -> "completed"

\* C3: at a review stage get_next_stage returns the next stage in sequence
\* when the stored verdict passed; when it failed or is absent it returns the
\* same work stage if retry_counts[stage] < max_retries and failed otherwise.
C3_ReviewTransition ==
  (fn.mode = "get_next_stage" /\ fn.calls >= 1 /\ state.stage \in ReviewStages) =>
    LET verdict == state[state.stage]
        work == WorkOf(state.stage)
    IN IF verdict # None /\ verdict.passed THEN fn.result = AfterReview(state.stage)
       ELSE IF state.retry_counts[work] < state.max_retries THEN fn.result = work
       ELSE fn.result = "failed"

\* a failed strategy review with retries left was sent back to strategy
C3_Witness ==
  /\ fn.mode = "get_next_stage" /\ fn.calls >= 1
  /\ state.stage = "strategy_review"
  /\ state.strategy_review # None /\ ~state.strategy_review.passed
  /\ state.retry_counts["strategy"] = state.max_retries - 1
  /\ fn.result = "strategy"

\* ---- C5
LastFailed(h) == h # <<>> /\ ~h[Len(h)]

\* C5: with max_retries = 0 the first failing review verdict of a stage sends
\* the run to failed, and the stage's work node never runs a second time.
C5_NoRetryAtZero ==
  state.max_retries = 0 =>
    \A s \in GatedStages :
      /\ execs[s] <= 1
      /\ LastFailed(hist[s]) => (pc \in {"failed", "END"} /\ Len(hist[s]) = 1)
      /\ (LastFailed(hist[s]) /\ pc = "END") => state.stage = "failed"

\* a run with max_retries = 0 that failed on the first strategy review
C5_Witness ==
  /\ state.max_retries = 0
  /\ hist["strategy"] = <<FALSE>>
  /\ execs["strategy"] = 1
  /\ state.stage = "failed"

\* ---- C6
\* the job state with other review slots and retry counters
Variations(st) ==
  { [st EXCEPT !.preprocessing_review = rv["preprocessing_review"],
               !.strategy_review = rv["strategy_review"],
               !.nanobanana_review = rv["nanobanana_review"],
               !.listing_review = rv["listing_review"],
               !.retry_counts = [s \in WorkStages |-> c]] :
    rv \in [ReviewStages -> SlotValues], c \in 0..MaxCount }

\* C6: once the stage is completed or failed, get_next_stage returns that
\* same stage whatever the review slots and retry counters hold, and no
\* further node of the graph runs.
C6_TerminalAbsorbing ==
  /\ [](state.stage \in TerminalStages =>
          /\ pc = "END"
          /\ \A st \in Variations(state) : get_next_stage(st) = state.stage)
  /\ [][state.stage \notin TerminalStages]_vars

\* a run that completed
C6_Witness == state.stage = "completed" /\ pc = "END" /\ state.success

\* ---- C7
\* C7: get_next_stage leaves the job state unchanged, and a second call with
\* the same stage, verdicts, retry_counts and max_retries returns the same
\* stage whatever else was written in between.
C7_Pure ==
  /\ []((fn.mode = "get_next_stage" /\ fn.calls = 2) => fn.result = fn.prev)
  /\ [][fn'.calls # fn.calls => state' = state]_vars

\* two calls at a failed review, with generate_images written in between
C7_Witness ==
  /\ fn.mode = "get_next_stage" /\ fn.calls = 2
  /\ state.stage = "listing_review"
  /\ state.listing_review # None /\ ~state.listing_review.passed
  /\ state.generate_images
  /\ fn.result = "failed" /\ fn.prev = "failed"

\* ---- C8
AnyTaskFailed == \E i \in 1..numSlots : tasks[i].outcome = "failed"

\* C8: right after the aggregator, a failed task result sends the run to
\* failed (no task is run again, no review or retry follows); with no failed
\* result the run goes to listing review, through image generation first
\* when it is enabled.
C8_AfterAggregator ==
  /\ \A i \in 1..MaxSlots : tasks[i].runs <= 1
  /\ state.stage = "nanobanana_aggregated" =>
       pc = IF AnyTaskFailed THEN "failed"
            ELSE IF state.generate_images THEN "image_gen" ELSE "listing_review"
  /\ state.stage \in {"image_gen_complete", "image_gen_failed"} =>
       (pc = "listing_review" /\ state.generate_images /\ ~AnyTaskFailed)
  /\ (AnyTaskFailed /\ pc = "END") => (state.stage = "failed" /\ hist["listing"] = <<>>)

\* the aggregator ran with a failed task and the run is on its way to failed
C8_Witness ==
  /\ state.stage = "nanobanana_aggregated"
  /\ AnyTaskFailed
  /\ pc = "failed"

\* ---- C9
\* C9: once the aggregator has run, nanobanana_success is true exactly when
\* none of the prompt tasks the fan-out dispatched ended in failure.
C9_SuccessFlag ==
  files.prompts # None =>
    (state.nanobanana_success <=>
       Cardinality({i \in 1..numSlots : tasks[i].outcome = "failed"}) = 0)

\* the aggregator ran on one failed and one successful task
C9_Witness ==
  /\ state.stage = "nanobanana_aggregated"
  /\ \E i, j \in 1..numSlots : tasks[i].outcome = "failed" /\ tasks[j].outcome = "ok"
  /\ ~state.nanobanana_success

\* ---- C10
\* merged artifacts with the same entries, whatever their order in the list
ContentEqual(a, b) ==
  {a.prompts[i] : i \in 1..Len(a.prompts)} = {b.prompts[i] : i \in 1..Len(b.prompts)}

\* C10: the same task results, completed in another order, give a
\* content-equal merged artifact and the same success flag.
C10_OrderIndependent ==
  (fn.mode = "aggregator" /\ fn.calls = 2) =>
    /\ ContentEqual(fn.prev.artifact, fn.result.artifact)
    /\ fn.prev.success = fn.result.success

\* ---- C11
\* the directions of the results the aggregator merged
MergedDirections == {files.prompts.prompts[k].type : k \in 1..Len(files.prompts.prompts)}

\* C11: the aggregator starts only after all N prompt tasks and the listing
\* task of the fan-out have completed; the result list it merges holds the
\* result of every dispatched prompt task.
C11_Barrier ==
  /\ files.prompts # None =>
       /\ pending = {}
       /\ \A i \in 1..numSlots : tasks[i].outcome # "none"
       /\ execs["listing"] >= 1
       /\ Len(files.prompts.prompts) = numSlots
       /\ MergedDirections = 1..numSlots
  /\ (pc = "fan_out" /\ pending # {}) => files.prompts = None

\* the aggregator merged the results of a fan-out of at least two prompt tasks
C11_Witness ==
  /\ state.stage = "nanobanana_aggregated"
  /\ files.prompts # None
  /\ numSlots >= 2
  /\ Len(state.prompt_results) = numSlots

\* ---- C12
\* the fan-out has run and exactly one of its prompt tasks failed
OneTaskFailed ==
  /\ files.prompts # None
  /\ Cardinality({i \in 1..numSlots : tasks[i].outcome = "failed"}) = 1

\* the run is on its way to the stage failed, or has reached it
GoesToFailed == pc = "failed" \/ (pc = "END" /\ state.stage = "failed")

ReviewNodeOf(g) ==
  CASE g = "preprocessing" -> "preprocess_review"
    [] g = "strategy" -> "strategy_review"
    [] g = "listing" -> "listing_review"
SlotOf(g) ==
  CASE g = "preprocessing" -> "preprocessing_review"
    [] g = "strategy" -> "strategy_review"
    [] g = "nanobanana" -> "nanobanana_review"
    [] g = "listing" -> "listing_review"
NodeAfterPass(g) ==
  CASE g = "preprocessing" -> "strategy"
    [] g = "strategy" -> "nanobanana_fan_out"
    [] g = "listing" -> "completed"

\* the step is a run of the gate of stage g in which the Layer-3 call raised
L3RaisedAt(g) ==
  /\ pc = ReviewNodeOf(g)
  /\ l3_call'.gate = g
  /\ l3_call'.called
  /\ l3_call'.outcome = "raise"

\* C13: when the Layer-3 judgment call raises on an artifact that passed
\* Layers 1 and 2, the gate stores a verdict with passed = true whose feedback
\* holds the error context, the stage's retry count is unchanged, and the run
\* proceeds to the next stage.
C13_L3ErrorPasses ==
  [][\A g \in GatedStages :
       L3RaisedAt(g) =>
         /\ state'[SlotOf(g)].passed
         /\ state'[SlotOf(g)].feedback = _run_semantic_review("raise").feedback
         /\ state'.retry_counts[g] = state.retry_counts[g]
         /\ pc' = NodeAfterPass(g)]_vars

\* ---- C14
\* the artifact on disk that the gate of stage g reads
ArtifactOf(g) ==
  CASE g = "preprocessing" -> files.product_data
    [] g = "strategy" -> files.strategy
    [] g = "listing" -> files.listing

\* the gate of stage g runs and stores a failed verdict that names an error
StoresFailure(g) ==
  /\ ~state'[SlotOf(g)].passed
  /\ state'[SlotOf(g)].errors # <<>>

\* C14 (as stated): in every review gate an artifact that is missing or
\* unparseable, lacks a required field or violates a rule gets a stored
\* verdict with passed = false and at least one error, never a passed one.
C14_BadArtifactFails ==
  [][\A g \in GatedStages :
       (pc = ReviewNodeOf(g) /\ ArtifactOf(g) \in {"absent", "l1bad", "l2bad", "longtag"})
         => StoresFailure(g)]_vars

\* C14 (amended): the same, except that the listing gate first truncates the
\* tags of more than 20 characters and rewrites the listing: a listing whose
\* only rule violation is such a tag gets a passed verdict.
C14_BadArtifactFailsButTags ==
  [][\A g \in GatedStages :
       /\ (pc = ReviewNodeOf(g) /\ ArtifactOf(g) \in {"absent", "l1bad", "l2bad"})
            => StoresFailure(g)
       /\ (pc = "listing_review" /\ files.listing = "longtag")
            => (state'.listing_review.passed /\ files'.listing = "ok")]_vars

\* the listing gate has stored a failed verdict on a listing that breaks a rule
C14_Witness ==
  /\ state.stage = "listing_review"
  /\ files.listing = "l2bad"
  /\ state.listing_review # None
  /\ ~state.listing_review.passed
  /\ state.listing_review.errors # <<>>

\* ---- C15
\* C15: a review gate makes its Layer-3 review only when semantic review is
\* enabled and the artifact it validated passed Layer 1 and Layer 2; it makes
\* none after a Layer-1 or Layer-2 failure, on an unreadable artifact, or when
\* semantic review is disabled.
C15_L3OnlyAfterL12 ==
  /\ l3_call.called =>
       /\ l3_enabled
       /\ l3_call.gate \in GatedStages
       /\ ArtifactOf(l3_call.gate) = "ok"
       /\ _run_layered_review(ArtifactOf(l3_call.gate)).passed
  /\ ~l3_call.called => l3_call.outcome = "none"

\* the strategy gate has made its Layer-3 review
C15_Witness ==
  /\ l3_call.called
  /\ l3_call.gate = "strategy"
  /\ state.stage = "strategy_review"
  /\ l3_enabled

\* ---- C16
\* the run ended in failed with the last review verdict of stage g a failed one
ExhaustedAt(g) ==
  /\ pc = "END"
  /\ state.stage = "failed"
  /\ state[SlotOf(g)] # None
  /\ ~state[SlotOf(g)].passed

\* C16: when a run ends in failed because a stage exhausted its retries, its
\* final_error is the error list of the last review verdict of that stage.
C16_ErrorsSurfaced ==
  \A g \in WorkStages :
    ExhaustedAt(g) => state.final_error = JoinErrors(state[SlotOf(g)].errors)

\* ---- C17
\* C17: a timeout, provider error or empty output of an external generation
\* call, in a work stage or a fan-out task, is recorded as a failed verdict or
\* a failed task result; no exception of such a call escapes the orchestrator.
C17_NoEscape ==
  /\ pc # "crashed"
  /\ \A i \in 1..numSlots :
       tasks[i].outcome = "failed" =>
         \E k \in 1..Len(state.prompt_results) :
           /\ state.prompt_results[k].direction = i
           /\ ~state.prompt_results[k].success

\* ---- C18
\* the job has reached a final status
JobFinished == job.status \in {"completed", "failed"}

\* C18: a job exposes a non-null result, and is reported as completed, only
\* if its pipeline run ended with terminal success; a job whose pipeline
\* ended in failed never exposes a result.
C18_ResultOnlyOnSuccess ==
  /\ (job.status = "completed" \/ job.results # None) =>
       (state.stage = "completed" /\ state.success)
  /\ (JobFinished /\ state.stage = "failed") => job.results = None

\* ---- C19
\* the run ended in failed because the aggregator reported a failed task
AggregatorFailedRun ==
  /\ pc = "END"
  /\ state.stage = "failed"
  /\ files.prompts # None
  /\ AnyTaskFailed

\* the errors of the failed task results, in the order of the result list
FailedTaskErrors ==
  LET failed_results == SelectSeq(state.prompt_results, LAMBDA r : ~r.success)
  IN [k \in 1..Len(failed_results) |-> failed_results[k].error]

\* C19: when a run ends in failed because the aggregator reported a failed
\* fan-out task, the terminal error of the run, and of its job once the job
\* is finished, is the error list of the failed tasks.
C19_TaskErrorsSurfaced ==
  AggregatorFailedRun =>
    /\ state.final_error = JoinErrors(FailedTaskErrors)
    /\ JobFinished => job.error = JoinErrors(FailedTaskErrors)

\* ---- C20
\* what job k owns: its retry counters, its review results, its result list
JobView(f, k) ==
  IF f.jobs[k] = None THEN None
  ELSE [retry_counts |-> f.heap[f.jobs[k].retry_counts],
        reviews |-> [s \in ReviewStages |-> f.jobs[k][s]],
        prompt_results |-> f.jobs[k].prompt_results]

\* C20: of two jobs with distinct identities run under any interleaving, no
\* step of one job changes the other job's retry_counts, review results or
\* result list, or reads the other job's retry_counts object.
C20_Isolated ==
  [][(fn'.mode = "jobs" /\ fn'.actor \in JobIds) =>
       \A k \in JobIds \ {fn'.actor} :
         /\ JobView(fn', k) = JobView(fn, k)
         /\ fn'.jobs[k] # None => fn'.jobs[k].retry_counts \notin fn'.reads]_vars

\* both jobs are under way, with different retry counters and result lists
C20_Witness ==
  /\ fn.mode = "jobs"
  /\ fn.jobs["job_a"] # None /\ fn.jobs["job_b"] # None
  /\ Deref(fn, "job_a").retry_counts["strategy"] = 2
  /\ Deref(fn, "job_b").retry_counts["strategy"] = 1
  /\ Len(fn.jobs["job_b"].prompt_results) >= 1
  /\ fn.actor = "job_a"

\* the attempts after which prompt_node makes another one: the call raised
\* RuntimeError, or returned empty text or an error
FailedAttempts == {"empty", "error", "RuntimeError"}

\* C21: every prompt task makes at most MAX_PROMPT_RETRIES (2) calls of
\* its generation call, and it makes a second one only when the first raised
\* or returned empty or error output, never because the prompt it got has
\* validation warnings
C21_AttemptPolicy ==
  fn.mode = "prompt" =>
    \A i \in 1..MaxSlots :
      /\ fn.loop[i].calls <= MAX_PROMPT_RETRIES
      /\ fn.loop[i].calls >= 2 => fn.loop[i].first \in FailedAttempts
      /\ fn.loop[i].first \in {"text", "text_warn"} /\ fn.loop[i].at = "done"
           => fn.loop[i].calls = 1 /\ fn.loop[i].returned.success

\* C21 witness: one task has returned after a second attempt, and one has
\* returned a prompt with validation warnings after a single attempt
C21_Witness ==
  /\ fn.mode = "prompt"
  /\ \E i \in 1..MaxSlots :
       fn.loop[i].at = "done" /\ fn.loop[i].calls = 2 /\ fn.loop[i].first = "RuntimeError"
  /\ \E j \in 1..MaxSlots :
       /\ fn.loop[j].at = "done" /\ fn.loop[j].calls = 1 /\ fn.loop[j].first = "text_warn"
       /\ fn.loop[j].returned.error = "Validation warnings: {errors}"

\* ---- C22
\* the run has ended in failed with the retry counter of stage g at max_retries
FailedEndOf(g) ==
  /\ pc = "END"
  /\ state.stage = "failed"
  /\ ~state.success
  /\ state.final_error # None
  /\ state.retry_counts[g] = state.max_retries

\* C22: for max_retries = m >= 1, a stage whose review fails on every
\* attempt (no later review of it passes) brings the run to its end in failed,
\* with success false, a final_error, and the stage's retry count equal to m.
C22_AllFailEndsFailed ==
  \A g \in GatedStages :
    (state.max_retries >= 1 /\ state[SlotOf(g)] # None /\ ~ReviewPassed(state[SlotOf(g)]))
      ~> (ReviewPassed(state[SlotOf(g)]) \/ FailedEndOf(g))

\* ---- C23
\* C23: every verdict stored in a review slot that has passed = true has an
\* empty error list.
C23_PassedHasNoErrors ==
  \A slot \in ReviewStages :
    ReviewPassed(state[slot]) => state[slot].errors = <<>>

\* C23 witness: a passed verdict with no errors is stored in one slot and a
\* failed verdict with its errors in another
C23_Witness ==
  /\ ReviewPassed(state.preprocessing_review)
  /\ state.preprocessing_review.errors = <<>>
  /\ state.strategy_review # None
  /\ ~ReviewPassed(state.strategy_review)
  /\ state.strategy_review.errors # <<>>

\* ---- C24
\* the highest layer the gate of stage g evaluates in this step: Layer 1 when
\* the artifact is unreadable or breaks the schema, Layer 2 when it breaks a
\* rule, Layer 3 when the gate calls the semantic review, Layer 2 otherwise
HighestLayerOf(g) ==
  LET data == IF g = "listing" THEN _auto_fix_tags(ArtifactOf(g)) ELSE ArtifactOf(g)
  IN IF data \in {"absent", "l1bad"} THEN SCHEMA
     ELSE IF data = "l2bad" THEN RULES
     ELSE IF l3_call'.called THEN SEMANTIC
     ELSE RULES

\* C24: the layer of every verdict a gate stores is the highest layer
\* evaluated in that review: the first failing layer of a failed review, and
\* for a passed one SEMANTIC when Layer 3 ran, RULES otherwise.
C24_HighestLayer ==
  [][\A g \in GatedStages :
       pc = ReviewNodeOf(g) => state'[SlotOf(g)].level = HighestLayerOf(g)]_vars

\* ---- C25
\* the step stores a failed verdict in the review slot of stage s
StoresFailedVerdict(s) ==
  /\ state'.stage = SlotOf(s)
  /\ state'[SlotOf(s)] # None
  /\ ~ReviewPassed(state'[SlotOf(s)])

\* C25: every retry counter starts at 0, never decreases, and increases
\* only in a step that stores a failed verdict for its own stage; a step that
\* stores a passed verdict, or a step of another stage, leaves it unchanged.
C25_RetryCounters ==
  /\ \A s \in WorkStages : state.retry_counts[s] = 0
  /\ [][\A s \in WorkStages :
          /\ state'.retry_counts[s] >= state.retry_counts[s]
          /\ state'.retry_counts[s] > state.retry_counts[s] => StoresFailedVerdict(s)]_vars

\* C25 witness: a counter was incremented by a failed review and kept its
\* value through the passed review of the retry and the steps of later stages
C25_Witness ==
  /\ ReviewPassed(state.preprocessing_review)
  /\ state.retry_counts["preprocessing"] = 1
  /\ state.listing_review # None
  /\ ~ReviewPassed(state.listing_review)
  /\ state.retry_counts["listing"] = 1

\* ---- C26
\* the terminal outcome of the run: success together with final_error
TerminalOutcome(st) == <<st.success, st.final_error>>

\* the step takes the run into completed or failed
TerminalTransition ==
  /\ state.stage \notin TerminalStages
  /\ state'.stage \in TerminalStages

\* C26: the terminal outcome (success with final_error) is written exactly
\* once per run, by the transition into completed or failed: it keeps its
\* initial value until then, that transition sets it, and no step changes
\* it afterwards.
C26_OutcomeWrittenOnce ==
  /\ [](state.stage \notin TerminalStages =>
          TerminalOutcome(state) = <<FALSE, None>>)
  /\ [](state.stage = "completed" => TerminalOutcome(state) = <<TRUE, None>>)
  /\ [](state.stage = "failed" => ~state.success /\ state.final_error # None)
  /\ [][TerminalOutcome(state') # TerminalOutcome(state) => TerminalTransition]_vars
  /\ [][state.stage \in TerminalStages => state' = state]_vars

\* C26 witness: a run of the graph that generated images and a retry has
\* ended in failed with its final_error written
C26_Witness ==
  /\ pc = "END"
  /\ state.stage = "failed"
  /\ state.final_error # None
  /\ state.image_gen_result # None
  /\ state.retry_counts["listing"] >= 1

\* ---- C27
\* C27: at every point of every run the stage field holds a member of the
\* closed stage enumeration StageType.
C27_StageInEnumeration == state.stage \in StageType

\* ---- C28
\* the step is a run of a node executor: preprocess_node, strategy_node,
\* listing_node, or a task of the fan-out (prompt task, listing task)
ExecutorStep ==
  \/ pc \in {"preprocess", "strategy", "listing"}
  \/ pc = "fan_out" /\ pending' # pending

\* the review result slots of a state
ReviewSlots(st) == [slot \in ReviewStages |-> st[slot]]

\* the stage name a node executor writes before it returns
OwnStage ==
  CASE pc = "preprocess" -> "preprocessing"
    [] pc = "strategy" -> "strategy"
    [] pc = "listing" -> "listing"
    [] OTHER -> state.stage

FoldsTaskResult == pc = "fan_out" /\ pending' # pending

\* C29: prompt_results is empty when a fan-out starts and changes only
\* while the results of the fan-out's tasks are folded in; no step before the
\* fan-out or after the fan-in adds entries to it.
C29_ResultsOnlyFromTasks ==
  /\ [](pc = "nanobanana_fan_out" => state.prompt_results = <<>>)
  /\ [][state'.prompt_results # state.prompt_results => FoldsTaskResult]_vars

\* ---- C30
\* C30: every execution of a work stage has persisted its artifact when it
\* returns, so the review gate that runs next finds the artifact of that
\* execution on disk and evaluates it, on first attempts and retries alike.
C30_ArtifactPersisted ==
  \A g \in GatedStages :
    pc = ReviewNodeOf(g) => ArtifactOf(g) # "absent"

\* ---- C31
\* the job state without its fan-out result list
ButResults(st) == [st EXCEPT !.prompt_results = <<>>]

\* C31: the input of every dispatched fan-out task, the listing task
\* included, refers to no object of the shared job state, and a task's
\* outcome changes nothing in the job state but the fan-out result list.
C31_SelfContainedTasks ==
  /\ [](fn.mode = "send" =>
          \A t \in 0..MaxSlots :
            fn.sends[t] # None =>
              PayloadRefs(fn.sends[t]) \cap StateRefs(fn.state) = {})
  /\ [][fn.mode = "send" /\ pending' # pending /\ fn.dispatched =>
          /\ ButResults(fn'.state) = ButResults(fn.state)
          /\ \A r \in StateRefs(fn.state) : fn'.heap[r] = fn.heap[r]]_vars

\* ---- C32
\* C32: whenever a run has reached completed with success true, the
\* preprocessing, strategy and listing review slots each hold a passed
\* verdict and the fan-out success flag nanobanana_success is true.
C32_CompletedMeansAllPassed ==
  state.stage = "completed" /\ state.success =>
    /\ ReviewPassed(state.preprocessing_review)
    /\ ReviewPassed(state.strategy_review)
    /\ ReviewPassed(state.listing_review)
    /\ state.nanobanana_success

\* C32 witness: a run has completed after retries of the strategy and the
\* listing stage
C32_Witness ==
  /\ pc = "END"
  /\ state.stage = "completed"
  /\ state.success
  /\ state.retry_counts["strategy"] >= 1
  /\ state.retry_counts["listing"] >= 1

\* ---- C33
\* C33: every step in which a review node stores a failed verdict for a
\* stage increases that stage's retry count by exactly one, a verdict for a
\* missing or unparseable artifact file included.
C33_FailureCounted ==
  [][\A g \in GatedStages :
       pc = ReviewNodeOf(g) /\ ~state'[SlotOf(g)].passed =>
         state'.retry_counts[g] = state.retry_counts[g] + 1]_vars

\* ---- C34
\* the aggregator has run: it has written the prompts file
AggregatorHasRun == files.prompts # None

SameInputs ==
  /\ \A s \in SharedGates : hist[s] = fn.graph.hist[s] /\ Len(hist[s]) < ExecCap
  /\ \A i \in 1..MaxSlots : tasks[i].outcome = fn.graph.tasks[i] /\ tasks[i].runs <= 1
  /\ state.image_gen_result = fn.graph.image_gen_result

\* C35: for the same preprocessing and listing review verdicts, the same
\* fan-out task outcomes and the same image-generation outcome, the CLI
\* loop and the compiled graph end in the same terminal stage.
C35_SameTerminalStage ==
  (fn.mode = "replay" /\ pc = "END" /\ SameInputs) => state.stage = fn.graph.stage

\* C36: once run_job has taken an error event from the workflow runner, the
\* job is failed with a non-empty error message, from then on; it is never
\* marked completed
C36_ErrorEventFailsJob ==
  (fn.mode = "worker" /\ fn.consumer = "run_job" /\ "error" \in fn.emitted)
    => /\ job.status = "failed"
       /\ job.error_message \notin {NoText, ""}

\* C36 witness: run_job has returned after an error event of the failed node
\* that followed a strategy_complete event; the job is failed
C36_Witness ==
  /\ fn.mode = "worker" /\ fn.consumer = "run_job" /\ fn.rj = "done"
  /\ {"error", "strategy_complete"} \subseteq fn.emitted
  /\ state.stage = "failed"
  /\ job.status = "failed"

\* C37: run_with_events yields a complete event only when the stream holds no
\* error event, and never in a run whose graph reached the failed node
C37_CompleteOnlyWithoutError ==
  IF fn.mode = "worker" /\ fn.queue # <<>>
  THEN Head(fn.queue).event = "complete"
         => ("error" \notin fn.emitted /\ state.stage # "failed")
  ELSE TRUE

\* the place of a job status in the lifecycle order; completed and failed
\* both end it
StatusRank(status) ==
  IF status = "failed" THEN 5
  ELSE CHOOSE k \in 1..Len(VALID_JOB_STATUSES) : VALID_JOB_STATUSES[k] = status

\* C38: while run_job processes a job, no step lowers the job's progress or
\* moves its status backwards in the lifecycle order
C38_JobNeverMovesBack ==
  [][fn.mode = "worker" =>
       /\ job'.progress >= job.progress
       /\ StatusRank(job'.status) >= StatusRank(job.status)]_vars

====
